---- MODULE Spec2Model ----
(***************************************************************************)
(* pod-discover: the recommendation engine (recommender.py), its caches    *)
(* and stores (db.py), the scoring functions (scoring.py) and the weights  *)
(* (config.py), as a state machine.                                        *)
(*                                                                         *)
(* Conventions                                                             *)
(*  - text is a sequence of tokens (characters or short runs of characters)*)
(*    so that concatenation and joining are real operations;               *)
(*  - an optional value (Python None or a value) is a sequence of length   *)
(*    0 or 1;                                                              *)
(*  - scores are fixed-point thousandths (1000 = 1.0); a composite score   *)
(*    is in millionths (a score times a weight);                           *)
(*  - the clock counts hours; timestamps are clock readings.               *)
(***************************************************************************)
EXTENDS Integers, Sequences, FiniteSets, TLC

VARIABLES
    now,          \* wall clock, in hours since day 0, 00:00 UTC
    inputs,       \* index of the stored profile / favorites / history (InputStates)
    recCache,     \* table recommendations_cache: set of rows
    trendCache,   \* table trending_cache, slot "podcasts": <<>> or <<row>>
    mentions,     \* table reddit_mentions: sequence of rows in rowid order
    pc,           \* position of the recommend call in flight
    req,          \* recommend: user_request
    key,          \* recommend: profile_hash
    queries,      \* recommend: parsed query-generation response
    results,      \* recommend: what asyncio.gather returned, one outcome per source
    all_episodes, \* recommend: merged candidates
    scoreData,    \* recommend: trending_data and reddit_mentions read for scoring
    usage,        \* recommend: total_usage
    llmCalls,     \* number of _call_claude calls made by the call in flight
    fetches,      \* number of trending refreshes attempted by the call in flight
    outcome,      \* what the call in flight returned or raised
    prev,         \* what the previous call returned, and when
    stores,       \* the cache stores made so far: which call, under which inputs, when
    calls,        \* number of recommend calls started
    updates,      \* number of mention updates made
    queryReply,   \* index of the reply to SEARCH_PROMPT the call got, 0 before it
    rankReply,    \* index of the reply to RANK_PROMPT the call got, 0 before it
    rankings,     \* recommend: the parsed ranking response
    cache0,       \* recCache as the call in flight found it
    manager,      \* the last call of _get_trending_data: what it found and returned
    tasks,        \* the four sources of the gather in flight, and what they launched
    order,        \* the sources in the order they settled
    peer,         \* a second recommend call in flight beside the one followed
    scoring,      \* a scoring function, its arguments and, once applied, its value
    config,       \* the weights configured and what loading them did
    reddit,       \* the mention updates and waits made, and the read of the mention source
    diversity,    \* candidates and a ranking, and what the scoring loop made of them
    refresh       \* the refreshes of the trending slot in flight, and the background loop

vars == <<now, inputs, recCache, trendCache, mentions, pc, req, key, queries,
          results, all_episodes, scoreData, usage, llmCalls, fetches, outcome,
          prev, stores, calls, updates, queryReply, rankReply, rankings, cache0,
          manager, tasks, order, peer, scoring, config, reddit, diversity, refresh>>

-----------------------------------------------------------------------------
(* Bounds of the model. *)

\* recommend calls per behaviour
MaxCalls == 2
\* the clock starts at FirstHour and stops at FirstHour + MaxHours
FirstHour == 22
MaxHours == 2
\* mention updates per behaviour
MaxMentionUpdates == 1

-----------------------------------------------------------------------------
(* Generic helpers. *)

None == <<>>
Some(v) == <<v>>

Min(a, b) == IF a < b THEN a ELSE b
Max(a, b) == IF a > b THEN a ELSE b

\* s[:n]
Take(s, n) == SubSeq(s, 1, Min(n, Len(s)))


\* the concatenation of a sequence of sequences
RECURSIVE Flatten(_)
Flatten(ss) == IF ss = <<>> THEN <<>> ELSE Head(ss) \o Flatten(Tail(ss))

\* sep.join(parts)
RECURSIVE Join(_, _)
Join(parts, sep) ==
    IF parts = <<>> THEN <<>>
    ELSE IF Len(parts) = 1 THEN parts[1]
    ELSE parts[1] \o sep \o Join(Tail(parts), sep)

\* lexicographic order on sequences of integers of equal length
RECURSIVE LexLess(_, _)
LexLess(a, b) ==
    IF a = <<>> \/ b = <<>> THEN FALSE
    ELSE IF Head(a) # Head(b) THEN Head(a) < Head(b)
    ELSE LexLess(Tail(a), Tail(b))

-----------------------------------------------------------------------------
(* Time and the two timestamp formats that meet in the mention store. *)

\* config.py: cache TTLs
TRENDING_CACHE_TTL == 4 * 60 * 60
REC_CACHE_TTL == 1 * 60 * 60

SecondsPerHour == 60 * 60

Day(t) == t \div 24
HourOfDay(t) == t % 24

\* SQLite CURRENT_TIMESTAMP: 'YYYY-MM-DD HH:MM:SS'. The date, the separator
\* (a space, code 32) and the time of day, in string order.
SqlTimestamp(t) == <<Day(t), 32, HourOfDay(t)>>

\* datetime.isoformat(): 'YYYY-MM-DDTHH:MM:SS.ffffff+00:00'. The separator is
\* the letter T (code 84).
IsoFormat(t) == <<Day(t), 84, HourOfDay(t)>>

-----------------------------------------------------------------------------
(* JSON serialisation. json.dumps writes every dict key as a string;        *)
(* json.loads gives string keys back. Keys are tagged with their type.      *)

IntKey(k) == [t |-> "int", v |-> k]
StrKey(k) == [t |-> "str", v |-> k]

\* a dict with ordered keys is a sequence of [k, v] items
DictKeys(d) == [i \in 1..Len(d) |-> d[i].k]
HasKey(d, k) == \E i \in 1..Len(d) : d[i].k = k
\* d[k]: the value of the last item stored under k
DictGet(d, k) ==
    LET idx == {i \in 1..Len(d) : d[i].k = k}
    IN  d[CHOOSE i \in idx : \A j \in idx : j <= i].v

JsonKeys(d) == [i \in 1..Len(d) |-> [k |-> StrKey(d[i].k.v), v |-> d[i].v]]

\* json.dumps / json.loads of the trending snapshot {podcasts, episodes}
JsonDumpsTrending(data) ==
    [text |-> [podcasts |-> JsonKeys(data.podcasts),
               episodes |-> JsonKeys(data.episodes)]]
JsonLoadsTrending(row) == row.text

\* JSON text of an optional integer: null or the numeral
JsonOpt(opt) == IF opt = <<>> THEN [null |-> TRUE, n |-> 0] ELSE [null |-> FALSE, n |-> opt[1]]
PyOpt(j) == IF j.null THEN <<>> ELSE <<j.n>>

\* JSON text of one entry of the result's episode list, and the dict
\* json.loads makes of it
JsonEpisode(ep) ==
    <<<<"id", ep.id>>, <<"title", ep.title>>, <<"feed_id", JsonOpt(ep.feed_id)>>,
      <<"feed_title", ep.feed_title>>,
      <<"duration_seconds", JsonOpt(ep.duration_seconds)>>,
      <<"date_published", JsonOpt(ep.date_published)>>,
      <<"match_score", ep.match_score>>, <<"match_reason", ep.match_reason>>,
      <<"composite_score", ep.composite_score>>>>
PyEpisode(j) ==
    [id |-> j[1][2], title |-> j[2][2], feed_id |-> PyOpt(j[3][2]),
     feed_title |-> j[4][2], duration_seconds |-> PyOpt(j[5][2]),
     date_published |-> PyOpt(j[6][2]), match_score |-> j[7][2],
     match_reason |-> j[8][2], composite_score |-> j[9][2]]

\* a json.dumps of the result that leaves the token usage out, for a hit costs
\* no tokens: C19 must not hold of it
JsonDumpsResultNoUsage(result) ==
    [text |-> <<<<"episodes", [i \in 1..Len(result.episodes) |->
                                  JsonEpisode(result.episodes[i])]>>,
                <<"queries_used", result.queries_used>>,
                <<"usage", <<<<"input_tokens", 0>>, <<"output_tokens", 0>>>>>>,
                <<"cached", IF result.cached THEN "true" ELSE "false">>>>]

\* json.dumps(result) of recommend: an object of four members, in the order
\* of the dict
JsonDumpsResult(result) ==
    [text |-> <<<<"episodes", [i \in 1..Len(result.episodes) |->
                                  JsonEpisode(result.episodes[i])]>>,
                <<"queries_used", result.queries_used>>,
                <<"usage", <<<<"input_tokens", result.usage.input_tokens>>,
                             <<"output_tokens", result.usage.output_tokens>>>>>>,
                <<"cached", IF result.cached THEN "true" ELSE "false">>>>]

\* json.loads(cached) of recommend
JsonLoadsResult(row) ==
    [episodes |-> [i \in 1..Len(row.text[1][2]) |-> PyEpisode(row.text[1][2][i])],
     queries_used |-> row.text[2][2],
     usage |-> [input_tokens |-> row.text[3][2][1][2],
                output_tokens |-> row.text[3][2][2][2]],
     cached |-> row.text[4][2] = "true"]

-----------------------------------------------------------------------------
(* db.py: the response cache. *)

\* sha256(...).hexdigest(): collision-free on the contents the model builds
Sha256(content) == <<"sha256", content>>

\* a freshness test that still passes a row of exactly max_age_minutes: C17
\* must not hold of it
CacheRowFreshInclusive(row, t, max_age_minutes) ==
    row.created_at * SecondsPerHour + max_age_minutes * 60 >= t * SecondsPerHour

\* a freshness test with the comparison turned round, which no fresh row
\* passes: C4 must not hold of it
CacheRowFreshReversed(row, t, max_age_minutes) ==
    row.created_at * SecondsPerHour + max_age_minutes * 60 < t * SecondsPerHour

\* "datetime(created_at, '+' || ? || ' minutes') > datetime('now')"
CacheRowFresh(row, t, max_age_minutes) ==
    row.created_at * SecondsPerHour + max_age_minutes * 60 > t * SecondsPerHour

\* Database.get_cached_recommendations: the row's JSON, or None
GetCachedRecommendations(cache, profile_hash, user_request, t, max_age_minutes) ==
    LET hit == {row \in cache : /\ row.profile_hash = profile_hash
                                /\ row.user_request = user_request
                                /\ CacheRowFresh(row, t, max_age_minutes)}
    IN  IF hit = {} THEN None ELSE Some((CHOOSE row \in hit : TRUE).response_json)

\* an insert that leaves a row already stored for the pair as it is: C18 must
\* not hold of it
SetCachedRecommendationsIgnore(cache, profile_hash, user_request, response_json, t) ==
    IF \E row \in cache : row.profile_hash = profile_hash /\ row.user_request = user_request
    THEN cache
    ELSE cache \cup {[profile_hash |-> profile_hash, user_request |-> user_request,
                      response_json |-> response_json, created_at |-> t]}

\* a store that skips a result without episodes: C38 must not hold of it
SetCachedRecommendationsSkipEmpty(cache, profile_hash, user_request, response_json, t) ==
    IF response_json.text[1][2] = <<>> THEN cache
    ELSE {row \in cache : ~(row.profile_hash = profile_hash /\ row.user_request = user_request)}
         \cup {[profile_hash |-> profile_hash, user_request |-> user_request,
                response_json |-> response_json, created_at |-> t]}

\* Database.set_cached_recommendations: upsert on (profile_hash, user_request)
SetCachedRecommendations(cache, profile_hash, user_request, response_json, t) ==
    {row \in cache : ~(row.profile_hash = profile_hash /\ row.user_request = user_request)}
    \cup {[profile_hash |-> profile_hash, user_request |-> user_request,
           response_json |-> response_json, created_at |-> t]}

-----------------------------------------------------------------------------
(* db.py: the trending cache slot "podcasts". *)

\* a store that adds the new keys to those the slot holds: C34 must not hold
\* of it
SetTrendingCacheMerge(data, t) ==
    IF trendCache = <<>> THEN <<[data |-> JsonDumpsTrending(data), cached_at |-> t]>>
    ELSE <<[data |-> [text |-> [podcasts |-> trendCache[1].data.text.podcasts
                                              \o JsonKeys(data.podcasts),
                                episodes |-> trendCache[1].data.text.episodes
                                              \o JsonKeys(data.episodes)]],
            cached_at |-> t]>>

\* Database.set_trending_cache: INSERT OR REPLACE
SetTrendingCache(data, t) == <<[data |-> JsonDumpsTrending(data), cached_at |-> t]>>

\* Database.get_trending_cache: None, or the stored dict plus "cached_at"
GetTrendingCache(slot) ==
    IF slot = <<>> THEN None
    ELSE LET d == JsonLoadsTrending(slot[1].data)
         IN  Some([podcasts |-> d.podcasts, episodes |-> d.episodes,
                   cached_at |-> slot[1].cached_at])

\* a staleness test that turns at the TTL instead of after it: C15 must not
\* hold of it
IsTrendingCacheStaleAtTtl(slot, t, max_age_seconds) ==
    slot = <<>> \/ (t - slot[1].cached_at) * SecondsPerHour >= max_age_seconds

\* a staleness test that holds of every snapshot: C14 must not hold of it
IsTrendingCacheStaleAlways(slot, t, max_age_seconds) == TRUE

\* Database.is_trending_cache_stale
IsTrendingCacheStale(slot, t, max_age_seconds) ==
    LET cached == GetTrendingCache(slot)
    IN  IF cached = None THEN TRUE
        ELSE (t - cached[1].cached_at) * SecondsPerHour > max_age_seconds

-----------------------------------------------------------------------------
(* db.py: the mention store. *)

\* str.lower() on the podcast names of the model
Lower(name) ==
    CASE name = "Serial" -> "serial"
      [] name = "Crime" -> "crime"
      [] OTHER -> name

\* an update that sets the count instead of adding to it: C28 must not hold
\* of it
UpdateRedditMentionSet(table, podcast_name, increment, t) ==
    LET name == Lower(podcast_name)
    IN  IF \E i \in 1..Len(table) : table[i].podcast_name = name
        THEN [i \in 1..Len(table) |->
                IF table[i].podcast_name = name
                THEN [table[i] EXCEPT !.mention_count = increment, !.updated_at = t]
                ELSE table[i]]
        ELSE Append(table, [podcast_name |-> name, mention_count |-> increment,
                            updated_at |-> t])

\* Database.update_reddit_mention: UPDATE the row of the lowercased name, or
\* INSERT it (at the end of the table) when no row was updated
UpdateRedditMention(table, podcast_name, increment, t) ==
    LET name == Lower(podcast_name)
    IN  IF \E i \in 1..Len(table) : table[i].podcast_name = name
        THEN [i \in 1..Len(table) |->
                IF table[i].podcast_name = name
                THEN [table[i] EXCEPT !.mention_count = @ + increment,
                                      !.updated_at = t]
                ELSE table[i]]
        ELSE Append(table, [podcast_name |-> name, mention_count |-> increment,
                            updated_at |-> t])

\* WHERE updated_at > ?: the stored CURRENT_TIMESTAMP text against the bound
\* isoformat text, compared as strings
MentionRowSelected(row, t, max_age_hours) ==
    LexLess(IsoFormat(t - max_age_hours), SqlTimestamp(row.updated_at))

\* Database.get_reddit_mentions: {podcast_name: mention_count} in table order
GetRedditMentions(table, t, max_age_hours) ==
    LET F[i \in 0..Len(table)] ==
            IF i = 0 THEN <<>>
            ELSE IF MentionRowSelected(table[i], t, max_age_hours)
                 THEN Append(F[i - 1], [k |-> table[i].podcast_name,
                                        v |-> table[i].mention_count])
                 ELSE F[i - 1]
    IN  F[Len(table)]

-----------------------------------------------------------------------------
(* The stored profile, favorites and consumption history, and the text the  *)
(* recommender makes of them.                                               *)

\* A stored state: the profile's JSON text (TasteProfile.model_dump_json, one
\* token: a JSON object delimits itself), the favorite_feeds rows and the
\* consumption_log rows, newest first.
InputStates == <<
    \* 1: one favorite, no history
    [profile |-> <<"{p}">>,
     favs |-> <<[feed_id |-> 1, feed_title |-> <<"A">>]>>,
     hist |-> <<>>],
    \* 2: the favorite is another feed with the same title
    [profile |-> <<"{p}">>,
     favs |-> <<[feed_id |-> 2, feed_title |-> <<"A">>]>>,
     hist |-> <<>>],
    \* 3: one favorite "A", one history entry titled "B|- C"
    [profile |-> <<"{p}">>,
     favs |-> <<[feed_id |-> 1, feed_title |-> <<"A">>]>>,
     hist |-> <<[title |-> <<"B", "|", "- ", "C">>, rating |-> "4", notes |-> None]>>],
    \* 4: one favorite "A|- B", one history entry titled "C"
    [profile |-> <<"{p}">>,
     favs |-> <<[feed_id |-> 1, feed_title |-> <<"A", "|", "- ", "B">>]>>,
     hist |-> <<[title |-> <<"C">>, rating |-> "4", notes |-> None]>>]
>>

\* the request texts of the model
Requests == {<<>>, <<"jazz">>}

\* Recommender._profile_summary
ProfileSummary(st) == st.profile

\* Recommender._favorites_summary
FavoritesSummary(st) ==
    IF st.favs = <<>> THEN <<"No favorite podcasts yet.">>
    ELSE Join([i \in 1..Len(st.favs) |-> <<"- ">> \o st.favs[i].feed_title], <<"\n">>)

\* Database.get_consumption_history(limit)
GetConsumptionHistory(st, limit) == Take(st.hist, limit)

HistoryLine(e) ==
    <<"- ">> \o e.title \o <<" (rated ", e.rating, "/5)">>
    \o (IF e.notes # None /\ e.notes[1] # <<>> THEN <<" - ">> \o e.notes[1] ELSE <<>>)

\* Recommender._history_summary
HistorySummary(st) ==
    LET history == GetConsumptionHistory(st, 15)
    IN  IF history = <<>> THEN <<"No listening history yet.">>
        ELSE Join([i \in 1..Len(history) |-> HistoryLine(history[i])], <<"\n">>)

\* the content hashed by Recommender._cache_key
CacheKeyContent(profile, favorites, history, user_request) ==
    profile \o <<"|">> \o favorites \o <<"|">> \o history \o <<"|">> \o user_request

\* Recommender._cache_key
CacheKey(profile, favorites, history, user_request) ==
    Sha256(CacheKeyContent(profile, favorites, history, user_request))


-----------------------------------------------------------------------------
(* models.py: Episode, and the episodes the directory of the model serves. *)

Episode(id, title, feed_id, feed_title, duration_seconds, date_published) ==
    [id |-> id, title |-> title, feed_id |-> feed_id, feed_title |-> feed_title,
     duration_seconds |-> duration_seconds, date_published |-> date_published]

\* date_published is None when the text is empty or does not parse, else the
\* clock reading it denotes
E1 == Episode(1, "a", Some(1), "Serial", Some(1800), Some(0))
E2 == Episode(2, "b", Some(1), "Serial", Some(3600), Some(20))
E3 == Episode(3, "c", None, "", None, None)
E4 == Episode(4, "d", None, "", Some(1800), None)
E5 == Episode(5, "e", Some(2), "Crime", None, Some(20))
\* another instance of episode 1, as another endpoint reports it
E1b == Episode(1, "a2", Some(1), "Serial", None, None)

\* a test that takes 0 for a feed: C39 must not hold of it
TruthyZero(opt) == opt # None

\* `if x` of Python on an optional integer
Truthy(opt) == opt # None /\ opt[1] # 0

\* the outcome of a call that may raise
Raised == [ok |-> FALSE, eps |-> <<>>]
Returned(eps) == [ok |-> TRUE, eps |-> eps]

\* a merge without the seen_ids test: C1 must not hold of it
DedupIntoUnseen(acc, eps) == acc \o eps

\* the loops "if ep.id not in seen_ids: seen_ids.add(ep.id); append(ep)"
RECURSIVE DedupInto(_, _)
DedupInto(acc, eps) ==
    IF eps = <<>> THEN acc
    ELSE IF \E i \in 1..Len(acc) : acc[i].id = Head(eps).id
         THEN DedupInto(acc, Tail(eps))
         ELSE DedupInto(Append(acc, Head(eps)), Tail(eps))

\* the loops over gathered results: an exception is skipped, a list is merged
RECURSIVE MergeResults(_, _)
MergeResults(acc, rs) ==
    IF rs = <<>> THEN acc
    ELSE IF ~Head(rs).ok THEN MergeResults(acc, Tail(rs))
    ELSE MergeResults(DedupInto(acc, Head(rs).eps), Tail(rs))

\* all the ways to take one element of each set of a sequence of sets
RECURSIVE Choices(_)
Choices(sets) ==
    IF sets = <<>> THEN {<<>>}
    ELSE {<<h>> \o t : h \in Head(sets), t \in Choices(Tail(sets))}

(* The directory client. What the directory answers is the environment's    *)
(* choice: env.search, env.trendingEpisodes, env.trendingPodcasts and       *)
(* env.byFeed are the answers it may give, and env.faults says whether a    *)
(* call may end in a transport error.                                       *)

Faults(env) == IF env.faults THEN {Raised} ELSE {}

\* PodcastIndexClient.search_episodes_by_term(query, max_results): at most
\* max_results episodes, or an error
SearchEpisodesByTerm(env, query, max_results) ==
    Faults(env) \cup {Returned(Take(eps, max_results)) : eps \in env.search}

\* PodcastIndexClient.get_trending_episodes(max)
GetTrendingEpisodes(env, max) ==
    Faults(env) \cup {Returned(Take(eps, max)) : eps \in env.trendingEpisodes}

\* PodcastIndexClient.get_trending_podcasts(max): {feed id: {rank, ...}}
GetTrendingPodcasts(env, max) ==
    {[ok |-> FALSE, podcasts |-> <<>>] : x \in Faults(env)}
    \cup {[ok |-> TRUE, podcasts |-> Take(d, max)] : d \in env.trendingPodcasts}

\* PodcastIndexClient.get_episodes_by_feed_id(feed_id, max_results); the feed
\* id arrives as an integer or, from the cached snapshot, as its text
GetEpisodesByFeedId(env, feed_key, max_results) ==
    Faults(env) \cup {Returned(Take(env.byFeed[feed_key.v], max_results))}

-----------------------------------------------------------------------------
(* config.py: RecommendationWeights, in thousandths. *)

AI_MATCH == 500
DURATION_MATCH == 50
RECENCY == 100
TRENDING == 150
SOCIAL_BUZZ == 100
POPULARITY == 100

-----------------------------------------------------------------------------
(* scoring.py. Scores are thousandths, rounded to the nearest. *)

\* max(0.0, min(1.0, score))
Clamp(score, one) == Max(0, Min(one, score))

\* round(1000 * exp(-0.025 * rank)) for rank = 0..304; from rank 305 on the
\* score is below half a thousandth
TrendingDecay == <<
    1000, 975, 951, 928, 905, 882, 861, 839, 819, 799, 779, 760,
    741, 723, 705, 687, 670, 654, 638, 622, 607, 592, 577, 563,
    549, 535, 522, 509, 497, 484, 472, 461, 449, 438, 427, 417,
    407, 397, 387, 377, 368, 359, 350, 341, 333, 325, 317, 309,
    301, 294, 287, 279, 273, 266, 259, 253, 247, 241, 235, 229,
    223, 218, 212, 207, 202, 197, 192, 187, 183, 178, 174, 169,
    165, 161, 157, 153, 150, 146, 142, 139, 135, 132, 129, 126,
    122, 119, 116, 114, 111, 108, 105, 103, 100, 98, 95, 93,
    91, 88, 86, 84, 82, 80, 78, 76, 74, 72, 71, 69,
    67, 66, 64, 62, 61, 59, 58, 56, 55, 54, 52, 51,
    50, 49, 47, 46, 45, 44, 43, 42, 41, 40, 39, 38,
    37, 36, 35, 34, 33, 33, 32, 31, 30, 29, 29, 28,
    27, 27, 26, 25, 25, 24, 24, 23, 22, 22, 21, 21,
    20, 20, 19, 19, 18, 18, 17, 17, 17, 16, 16, 15,
    15, 15, 14, 14, 14, 13, 13, 13, 12, 12, 12, 11,
    11, 11, 11, 10, 10, 10, 10, 9, 9, 9, 9, 8,
    8, 8, 8, 8, 7, 7, 7, 7, 7, 7, 6, 6,
    6, 6, 6, 6, 6, 5, 5, 5, 5, 5, 5, 5,
    5, 4, 4, 4, 4, 4, 4, 4, 4, 4, 4, 3,
    3, 3, 3, 3, 3, 3, 3, 3, 3, 3, 3, 3,
    2, 2, 2, 2, 2, 2, 2, 2, 2, 2, 2, 2,
    2, 2, 2, 2, 2, 2, 2, 2, 2, 1, 1, 1,
    1, 1, 1, 1, 1, 1, 1, 1, 1, 1, 1, 1,
    1, 1, 1, 1, 1, 1, 1, 1, 1, 1, 1, 1,
    1, 1, 1, 1, 1, 1, 1, 1, 1, 1, 1, 1,
    1, 1, 1, 1, 1
>>

\* round(1000 * exp(-(h / 24) * ln 2 / 25)) for an age of h = 0..72 hours
RecencyDecay == <<
    1000, 999, 998, 997, 995, 994, 993, 992, 991, 990, 989, 987,
    986, 985, 984, 983, 982, 981, 979, 978, 977, 976, 975, 974,
    973, 972, 970, 969, 968, 967, 966, 965, 964, 963, 961, 960,
    959, 958, 957, 956, 955, 954, 953, 952, 950, 949, 948, 947,
    946, 945, 944, 943, 942, 941, 940, 938, 937, 936, 935, 934,
    933, 932, 931, 930, 929, 928, 927, 926, 924, 923, 922, 921,
    920
>>

\* round(1000 * exp(-(d * d) / (2 * 27 * 27))) for a difference of d = 0..90 minutes
DurationCurve == <<
    1000, 999, 997, 994, 989, 983, 976, 967, 957, 946, 934, 920,
    906, 891, 874, 857, 839, 820, 801, 781, 760, 739, 718, 696,
    674, 651, 629, 607, 584, 562, 539, 517, 495, 474, 453, 432,
    411, 391, 371, 352, 334, 316, 298, 281, 265, 249, 234, 220,
    206, 193, 180, 168, 157, 146, 135, 126, 116, 108, 100, 92,
    85, 78, 72, 66, 60, 55, 50, 46, 42, 38, 35, 32,
    29, 26, 23, 21, 19, 17, 15, 14, 12, 11, 10, 9,
    8, 7, 6, 6, 5, 4, 4
>>

\* the least rank at which math.exp(-0.025 * rank) is exactly 0.0: the result
\* is below the least positive double and underflows
ExpUnderflow == 29806

\* a decay in steps of two ranks: C26 must not hold of it
ExpRankStepped(rank) ==
    IF rank < 0 THEN 1000 - rank
    ELSE IF rank < Len(TrendingDecay) THEN TrendingDecay[2 * (rank \div 2) + 1]
    ELSE 0

\* math.exp(-0.025 * rank): above 1 for a negative rank, below half a
\* thousandth from rank 305 on, and 0.0 from rank ExpUnderflow on
ExpRank(rank) ==
    IF rank < 0 THEN 1000 - rank
    ELSE IF rank < Len(TrendingDecay) THEN TrendingDecay[rank + 1]
    ELSE 0

\* calculate_trending_score(feed_id, trending_data)
CalculateTrendingScore(feed_id, trending_data) ==
    IF trending_data = <<>> \/ ~HasKey(trending_data, IntKey(feed_id)) THEN 0
    ELSE LET rank == DictGet(trending_data, IntKey(feed_id)).rank
         IN  IF rank = None THEN 0 ELSE Clamp(ExpRank(rank[1]), 1000)

\* a scaling in steps, without the interpolation: C25 must not hold of it
SocialScaleSteps(mentions_count) ==
    IF mentions_count = 0 THEN 0
    ELSE IF mentions_count >= 10 THEN 1000
    ELSE IF mentions_count >= 5 THEN 700
    ELSE 300

\* the piecewise linear scaling of calculate_social_score
SocialScale(mentions_count) ==
    IF mentions_count = 0 THEN 0
    ELSE IF mentions_count >= 10 THEN 1000
    ELSE IF mentions_count >= 5 THEN 700 + ((mentions_count - 5) * (900 - 700)) \div (9 - 5)
    ELSE 300 + ((mentions_count - 1) * (600 - 300)) \div (4 - 1)

\* calculate_social_score(podcast_name, reddit_mentions)
CalculateSocialScore(podcast_name, reddit_mentions) ==
    IF reddit_mentions = <<>> \/ ~HasKey(reddit_mentions, podcast_name) THEN 0
    ELSE SocialScale(DictGet(reddit_mentions, podcast_name))

\* calculate_popularity_score(episode)
CalculatePopularityScore(ep) == 500

\* calculate_recency_score(episode), at clock reading t
CalculateRecencyScore(ep, t) ==
    IF ep.date_published = None THEN 0
    ELSE LET age == t - ep.date_published[1]
         IN  Clamp(IF age < 0 THEN 1000 - age
                   ELSE IF age <= 72 THEN RecencyDecay[age + 1]
                   ELSE Max(0, RecencyDecay[73] - (age - 72)), 1000)

\* calculate_duration_match(episode, preferred_duration_minutes)
CalculateDurationMatch(ep, preferred_duration_minutes) ==
    IF ep.duration_seconds = None THEN 0
    ELSE LET minutes == ep.duration_seconds[1] \div 60
             diff == IF minutes >= preferred_duration_minutes
                     THEN minutes - preferred_duration_minutes
                     ELSE preferred_duration_minutes - minutes
         IN  Clamp(IF diff <= 90 THEN DurationCurve[diff + 1] ELSE 0, 1000)

\* a composite with the weights of trending and social exchanged: C23 must
\* not hold of it
CalculateCompositeScoreSwapped(trending_score, social_score, popularity_score, recency_score, duration_score, ai_score) ==
    Clamp(trending_score * SOCIAL_BUZZ + social_score * TRENDING
          + popularity_score * POPULARITY + recency_score * RECENCY
          + duration_score * DURATION_MATCH + ai_score * AI_MATCH, 1000 * 1000)

\* calculate_composite_score(...), in millionths
CalculateCompositeScore(trending_score, social_score, popularity_score, recency_score, duration_score, ai_score) ==
    Clamp(trending_score * TRENDING + social_score * SOCIAL_BUZZ
          + popularity_score * POPULARITY + recency_score * RECENCY
          + duration_score * DURATION_MATCH + ai_score * AI_MATCH, 1000 * 1000)

-----------------------------------------------------------------------------
(* The language model's replies and Recommender._parse_json.                *)
(* A reply's text is a sequence of tokens [k, v]: k = "fence" (three        *)
(* backquotes), "nl" (a newline), "ws" (other white space), "word" (text    *)
(* that is no JSON) or "json" (the text of the JSON value v).               *)

Tok(k) == [k |-> k, v |-> <<>>]
JsonTok(v) == [k |-> "json", v |-> v]

\* JSON values: a list (of strings or of objects), a list of numbers (its
\* items are the numerals), a string (its items are its characters), an
\* object (its items are its keys) or a number
JList(items) == [t |-> "list", items |-> items]
JStr(chars) == [t |-> "str", items |-> chars]
JObj(keys) == [t |-> "obj", items |-> keys]
JNumList(items) == [t |-> "numlist", items |-> items]
JNum(n) == [t |-> "num", items |-> <<n>>]

IsSpace(tok) == tok.k \in {"nl", "ws"}

\* str.strip()
RECURSIVE LStrip(_)
LStrip(text) ==
    IF text # <<>> /\ IsSpace(Head(text)) THEN LStrip(Tail(text)) ELSE text
RECURSIVE RStrip(_)
RStrip(text) ==
    IF text # <<>> /\ IsSpace(text[Len(text)])
    THEN RStrip(SubSeq(text, 1, Len(text) - 1)) ELSE text
Strip(text) == RStrip(LStrip(text))

\* text.split("\n", 1)[1] if "\n" in text else text[3:]
AfterFirstLine(text) ==
    LET nls == {i \in 1..Len(text) : text[i].k = "nl"}
    IN  IF nls # {}
        THEN SubSeq(text, (CHOOSE i \in nls : \A j \in nls : i <= j) + 1, Len(text))
        ELSE Tail(text)

\* text.rsplit("```", 1)[0]
BeforeLastFence(text) ==
    LET fs == {i \in 1..Len(text) : text[i].k = "fence"}
    IN  IF fs # {}
        THEN SubSeq(text, 1, (CHOOSE i \in fs : \A j \in fs : j <= i) - 1)
        ELSE text

\* a parser that picks the JSON value out of the prose around it: C8 must not
\* hold of it
JsonLoadsLenient(text) ==
    LET js == {i \in 1..Len(text) : text[i].k = "json"}
    IN  IF js # {}
        THEN [ok |-> TRUE, value |-> text[CHOOSE i \in js : \A j \in js : i <= j].v]
        ELSE [ok |-> FALSE, value |-> [t |-> "list", items |-> <<>>]]

\* json.loads: the text must be exactly one JSON value
JsonLoads(text) ==
    IF Len(text) = 1 /\ text[1].k = "json"
    THEN [ok |-> TRUE, value |-> text[1].v]
    ELSE [ok |-> FALSE, value |-> JList(<<>>)]

\* Recommender._parse_json
ParseJson(raw) ==
    LET text == Strip(raw)
        body == IF text # <<>> /\ text[1].k = "fence"
                THEN BeforeLastFence(AfterFirstLine(text))
                ELSE text
    IN  JsonLoads(Strip(body))

Usage(input_tokens, output_tokens) ==
    [input_tokens |-> input_tokens, output_tokens |-> output_tokens]

Reply(text, usage_) == [text |-> text, usage |-> usage_]

\* what the model may answer to SEARCH_PROMPT
QueryReplies == <<
    \* the array asked for
    Reply(<<JsonTok(JList(<<"jazz", "news">>))>>, Usage(100, 20)),
    \* the same, fenced
    Reply(<<Tok("fence"), Tok("word"), Tok("nl"), JsonTok(JList(<<"jazz">>)),
            Tok("nl"), Tok("fence")>>, Usage(100, 30)),
    \* prose around the array
    Reply(<<Tok("word"), Tok("ws"), JsonTok(JList(<<"jazz">>))>>, Usage(100, 20)),
    \* a single JSON string
    Reply(<<JsonTok(JStr(<<"j", "z">>))>>, Usage(100, 20)),
    \* an array of numbers
    Reply(<<JsonTok(JNumList(<<"7">>))>>, Usage(100, 20)),
    \* an object
    Reply(<<JsonTok(JObj(<<"queries">>))>>, Usage(100, 20))
>>

\* one entry of the ranking array; a key the model left out is None
Ranking(id, score, reason) == [id |-> id, score |-> score, reason |-> reason]

\* what the model may answer to RANK_PROMPT
RankReplies == <<
    \* episode 2 first, episode 1 after it, and an id that is no candidate
    Reply(<<JsonTok(JList(<<Ranking(Some(2), Some(9), Some("x")), Ranking(Some(1), Some(5), Some("y")),
                           Ranking(Some(3), Some(7), Some("x")), Ranking(Some(4), Some(6), Some("x")),
                           Ranking(Some(5), Some(8), Some("x")), Ranking(Some(9), Some(10), Some("x"))>>))>>,
          Usage(200, 50)),
    \* fenced, episode 1 and an id that is no candidate
    Reply(<<Tok("fence"), Tok("nl"),
            JsonTok(JList(<<Ranking(Some(1), Some(8), Some("x")),
                            Ranking(Some(9), Some(7), Some("x"))>>)),
            Tok("fence")>>, Usage(200, 40)),
    \* nothing worth recommending
    Reply(<<JsonTok(JList(<<>>))>>, Usage(200, 2)),
    \* no JSON
    Reply(<<Tok("word")>>, Usage(200, 10)),
    \* one object instead of an array of objects
    Reply(<<JsonTok(JObj(<<"id", "score", "reason">>))>>, Usage(200, 10)),
    \* scores off the scale asked for, and an empty reason
    Reply(<<JsonTok(JList(<<Ranking(Some(1), Some(12), Some("")),
                           Ranking(Some(3), Some(0), Some("x"))>>))>>, Usage(200, 20))
>>

-----------------------------------------------------------------------------
(* recommender.py: the trending cache manager and the four sources. Each    *)
(* operator gives the set of outcomes the call may have, one per way the    *)
(* directory may answer.                                                    *)

\* d[k] = v on a dict with ordered keys
DictSet(d, k, v) ==
    IF HasKey(d, k)
    THEN [i \in 1..Len(d) |-> IF d[i].k = k THEN [k |-> k, v |-> v] ELSE d[i]]
    ELSE Append(d, [k |-> k, v |-> v])

\* for rank, ep in enumerate(episodes_list): episodes[ep.id] = {"rank": rank}
EpisodeRanks(episodes_list) ==
    LET F[i \in 0..Len(episodes_list)] ==
            IF i = 0 THEN <<>>
            ELSE DictSet(F[i - 1], IntKey(episodes_list[i].id), [rank |-> Some(i - 1)])
    IN  F[Len(episodes_list)]

TrendingRaised(slot) ==
    [ok |-> FALSE, data |-> [podcasts |-> <<>>, episodes |-> <<>>, cached_at |-> None],
     slot |-> slot, fetched |-> TRUE]

\* Recommender._get_trending_data at clock reading t: the snapshot returned
\* (or the error raised), the cache slot afterwards, and whether the directory
\* was asked
GetTrendingData(env, slot, t) ==
    IF IsTrendingCacheStale(slot, t, TRENDING_CACHE_TTL)
    THEN UNION {
            IF ~p.ok THEN {TrendingRaised(slot)}
            ELSE {IF ~e.ok THEN TrendingRaised(slot)
                  ELSE LET cache_data == [podcasts |-> p.podcasts,
                                          episodes |-> EpisodeRanks(e.eps)]
                       IN  [ok |-> TRUE,
                            data |-> [podcasts |-> cache_data.podcasts,
                                      episodes |-> cache_data.episodes,
                                      cached_at |-> None],
                            slot |-> SetTrendingCache(cache_data, t),
                            fetched |-> TRUE]
                  : e \in GetTrendingEpisodes(env, 100)}
            : p \in GetTrendingPodcasts(env, 100)}
    ELSE LET cached == GetTrendingCache(slot)
         IN  {[ok |-> TRUE,
               data |-> IF cached # None
                        THEN [podcasts |-> cached[1].podcasts,
                              episodes |-> cached[1].episodes,
                              cached_at |-> Some(cached[1].cached_at)]
                        ELSE [podcasts |-> <<>>, episodes |-> <<>>, cached_at |-> None],
               slot |-> slot, fetched |-> FALSE]}

\* the sequential loop of _search_by_queries over the answers `answers`: the
\* first error ends the source
SearchLoop(answers) ==
    IF \E i \in 1..Len(answers) : ~answers[i].ok THEN Raised
    ELSE Returned(DedupInto(<<>>, Flatten([i \in 1..Len(answers) |-> answers[i].eps])))

\* Recommender._search_by_queries(queries)
SearchByQueries(env, qs) ==
    {SearchLoop(answers) :
        answers \in Choices([i \in 1..Len(qs) |-> SearchEpisodesByTerm(env, qs[i], 5)])}

\* Recommender._get_episodes_from_trending_feeds, given what its call of
\* _get_trending_data gave
EpisodesFromTrendingFeeds(env, td) ==
    IF ~td.ok THEN {Raised}
    ELSE IF td.data.podcasts = <<>> THEN {Returned(<<>>)}
    ELSE LET feed_ids == Take(DictKeys(td.data.podcasts), 5)
         IN  {Returned(MergeResults(<<>>, answers)) :
                answers \in Choices([i \in 1..Len(feed_ids) |->
                                        GetEpisodesByFeedId(env, feed_ids[i], 2)])}

\* Recommender._get_episodes_from_reddit_mentions at clock reading t; the
\* read of the mention store may fail
EpisodesFromRedditMentions(env, table, t) ==
    LET reddit_mentions == GetRedditMentions(table, t, 24)
        names == Take(DictKeys(reddit_mentions), 3)
    IN  Faults(env)
        \cup (IF reddit_mentions = <<>> THEN {Returned(<<>>)}
              ELSE {Returned(MergeResults(<<>>, answers)) :
                      answers \in Choices([i \in 1..Len(names) |->
                                              SearchEpisodesByTerm(env, names[i], 2)])})

\* asyncio.gather with return_exceptions=False, which raises the first error
\* of a source: C6 must not hold of it
GatherPropagates(outcomes) == \E i \in 1..Len(outcomes) : ~outcomes[i].ok

\* asyncio.gather(..., return_exceptions=True) never raises: an error of a
\* source is one of the values returned
GatherRaises(outcomes) == FALSE

\* a recommend that goes on to rank an empty candidate list: C10 must not
\* hold of it
ShortCircuitNever(merged) == FALSE

\* "if not all_episodes: return {...}"
ShortCircuit(merged) == merged = <<>>

-----------------------------------------------------------------------------
(* recommender.py: ranking, scoring and the feed filter. *)

\* queries[:5] raises on a JSON object and on a number
Sliceable(value) == value.t \in {"list", "numlist", "str"}

\* ranking_dict = {r["id"]: r for r in rankings}
RankingDict(parsed_rankings) ==
    IF parsed_rankings.t = "list"
    THEN IF \E i \in 1..Len(parsed_rankings.items) : parsed_rankings.items[i].id = None
         THEN [ok |-> FALSE, d |-> <<>>]
         ELSE LET F[i \in 0..Len(parsed_rankings.items)] ==
                      IF i = 0 THEN <<>>
                      ELSE DictSet(F[i - 1], parsed_rankings.items[i].id[1], parsed_rankings.items[i])
              IN  [ok |-> TRUE, d |-> F[Len(parsed_rankings.items)]]
    ELSE [ok |-> parsed_rankings.t # "num" /\ parsed_rankings.items = <<>>, d |-> <<>>]

\* one entry of the result's episode list
Scored(ep, ai_ranking, composite_score) ==
    [id |-> ep.id, title |-> ep.title, feed_id |-> ep.feed_id,
     feed_title |-> ep.feed_title, duration_seconds |-> ep.duration_seconds,
     date_published |-> ep.date_published,
     match_score |-> ai_ranking.score[1], match_reason |-> ai_ranking.reason[1],
     composite_score |-> composite_score]

\* the composite score recommend gives a ranked episode
CompositeOf(ep, ai_ranking, trending_data, reddit_mentions, t) ==
    CalculateCompositeScore(
        CalculateTrendingScore(IF Truthy(ep.feed_id) THEN ep.feed_id[1] ELSE 0,
                               trending_data),
        CalculateSocialScore(ep.feed_title, reddit_mentions),
        CalculatePopularityScore(ep),
        CalculateRecencyScore(ep, t),
        CalculateDurationMatch(ep, 30),
        ai_ranking.score[1] * 100)

\* a loop that never skips a feed: C2 must not hold of it
FeedSeenNever(ep, seen_feeds) == FALSE

\* "if ep.feed_id and ep.feed_id in seen_feeds: continue"
FeedSeen(ep, seen_feeds) == Truthy(ep.feed_id) /\ ep.feed_id[1] \in seen_feeds

\* a loop that keeps the last ranked candidate of a feed instead of the first:
\* C3 must not hold of it
ScoreStepKeepLast(st, ep, ranking_dict, trending_data, reddit_mentions, t) ==
    IF ~st.ok \/ ~HasKey(ranking_dict, ep.id) THEN st
    ELSE LET ai_ranking == DictGet(ranking_dict, ep.id)
             others == SelectSeq(st.ranked,
                                 LAMBDA r : ~(Truthy(ep.feed_id) /\ r.feed_id = ep.feed_id))
         IN  IF ai_ranking.score = None \/ ai_ranking.reason = None
             THEN [ok |-> FALSE, ranked |-> <<>>, seen_feeds |-> {}]
             ELSE [ok |-> TRUE,
                   ranked |-> Append(others,
                                     Scored(ep, ai_ranking,
                                            CompositeOf(ep, ai_ranking, trending_data,
                                                        reddit_mentions, t))),
                   seen_feeds |-> IF Truthy(ep.feed_id)
                                  THEN st.seen_feeds \cup {ep.feed_id[1]}
                                  ELSE st.seen_feeds]

\* a loop that keeps a candidate the ranking response does not list, with
\* score 0: C20 must not hold of it
ScoreStepKeepUnranked(st, ep, ranking_dict, trending_data, reddit_mentions, t) ==
    IF ~st.ok \/ FeedSeen(ep, st.seen_feeds) THEN st
    ELSE LET ai_ranking == IF HasKey(ranking_dict, ep.id)
                           THEN DictGet(ranking_dict, ep.id)
                           ELSE [id |-> Some(ep.id), score |-> Some(0), reason |-> Some("")]
         IN  IF ai_ranking.score = None \/ ai_ranking.reason = None
             THEN [ok |-> FALSE, ranked |-> <<>>, seen_feeds |-> {}]
             ELSE [ok |-> TRUE,
                   ranked |-> Append(st.ranked,
                                     Scored(ep, ai_ranking,
                                            CompositeOf(ep, ai_ranking, trending_data,
                                                        reddit_mentions, t))),
                   seen_feeds |-> IF Truthy(ep.feed_id)
                                  THEN st.seen_feeds \cup {ep.feed_id[1]}
                                  ELSE st.seen_feeds]

\* a loop that marks the feed of a candidate before it looks its ranking up:
\* C32 must not hold of it
ScoreStepMarkFirst(st, ep, ranking_dict, trending_data, reddit_mentions, t) ==
    IF ~st.ok \/ FeedSeen(ep, st.seen_feeds) THEN st
    ELSE IF ~HasKey(ranking_dict, ep.id)
    THEN [st EXCEPT !.seen_feeds = IF Truthy(ep.feed_id) THEN @ \cup {ep.feed_id[1]} ELSE @]
    ELSE LET ai_ranking == DictGet(ranking_dict, ep.id)
         IN  [ok |-> TRUE,
              ranked |-> Append(st.ranked,
                                Scored(ep, ai_ranking,
                                       CompositeOf(ep, ai_ranking, trending_data,
                                                   reddit_mentions, t))),
              seen_feeds |-> IF Truthy(ep.feed_id)
                             THEN st.seen_feeds \cup {ep.feed_id[1]}
                             ELSE st.seen_feeds]

\* one pass of the loop "for ep in all_episodes" of recommend, from the loop
\* state st = [ok, ranked, seen_feeds]; a ranking that lacks its score or its
\* reason raises
ScoreStep(st, ep, ranking_dict, trending_data, reddit_mentions, t) ==
    IF ~st.ok \/ FeedSeen(ep, st.seen_feeds) \/ ~HasKey(ranking_dict, ep.id) THEN st
    ELSE LET ai_ranking == DictGet(ranking_dict, ep.id)
         IN  IF ai_ranking.score = None \/ ai_ranking.reason = None
             THEN [ok |-> FALSE, ranked |-> <<>>, seen_feeds |-> {}]
             ELSE [ok |-> TRUE,
                   ranked |-> Append(st.ranked,
                                     Scored(ep, ai_ranking,
                                            CompositeOf(ep, ai_ranking, trending_data,
                                                        reddit_mentions, t))),
                   seen_feeds |-> IF Truthy(ep.feed_id)
                                  THEN st.seen_feeds \cup {ep.feed_id[1]}
                                  ELSE st.seen_feeds]

\* the whole loop, from ranked_episodes = [] and seen_feeds = set()
ScoreLoop(eps, ranking_dict, trending_data, reddit_mentions, t) ==
    LET F[i \in 0..Len(eps)] ==
            IF i = 0 THEN [ok |-> TRUE, ranked |-> <<>>, seen_feeds |-> {}]
            ELSE ScoreStep(F[i - 1], eps[i], ranking_dict, trending_data,
                           reddit_mentions, t)
    IN  F[Len(eps)]

\* a result left in candidate order: C21 must not hold of it
SortByCompositeNever(ranked) == ranked

\* list.sort(key=composite_score, reverse=True): stable, equal scores keep
\* their order
RECURSIVE SortByComposite(_)
SortByComposite(ranked) ==
    IF ranked = <<>> THEN <<>>
    ELSE LET sorted == SortByComposite(SubSeq(ranked, 1, Len(ranked) - 1))
             x == ranked[Len(ranked)]
             before == {i \in 1..Len(sorted) : sorted[i].composite_score >= x.composite_score}
             n == Cardinality(before)
         IN  SubSeq(sorted, 1, n) \o <<x>> \o SubSeq(sorted, n + 1, Len(sorted))

-----------------------------------------------------------------------------
(* recommender.py: Recommender.recommend, one action per stretch of code    *)
(* between two points where the call waits.                                 *)

\* get_cached_recommendations(..., max_age_minutes: int = 60)
MaxAgeMinutes == 60

\* a _call_claude that asks again when the first answer displeases it: C13
\* must not hold of it
CallClaudeTwice(calls_made) == calls_made + 2

\* Recommender._call_claude: one messages.create per call, and the caller
\* waits for it
CallClaude(calls_made) == calls_made + 1

NoQueries == JList(<<>>)
NoUsage == Usage(0, 0)
NoScoreData == [trending_data |-> <<>>, reddit_mentions |-> <<>>]
NoOutcome ==
    [kind |-> "none", via |-> "none", episodes |-> <<>>, queries_used |-> NoQueries,
     usage |-> NoUsage, cached |-> FALSE]

\* the dict recommend returns
Result(episodes, queries_used, usage_, cached) ==
    [episodes |-> episodes, queries_used |-> queries_used, usage |-> usage_,
     cached |-> cached]

ReturnedResult(via, result) ==
    [kind |-> "result", via |-> via, episodes |-> result.episodes,
     queries_used |-> result.queries_used, usage |-> result.usage,
     cached |-> result.cached]

\* an exception leaves recommend
RaisedAt(via) == [NoOutcome EXCEPT !.kind = "raised", !.via = via]

\* a total that keeps only the usage of the last call: C31 must not hold of it
AddUsageLast(a, b) == b

\* total_usage[...] += rank_usage[...], for both counts
AddUsage(a, b) ==
    Usage(a.input_tokens + b.input_tokens, a.output_tokens + b.output_tokens)

persistent == <<now, inputs, mentions, updates>>

\* what a step of recommend outside the gather leaves alone
\* what no step of a recommend call touches
aside == <<scoring, config, reddit, diversity, refresh>>

apart == <<manager, tasks, order, peer, aside>>

\* one source, or one fetch a source launched: st is "idle", "running", "ok"
\* or "failed"; eps is what it returned so far; step counts the fetches a
\* sequential source has made; subs are the fetches it launched
Task(st, eps, step, subs) == [st |-> st, eps |-> eps, step |-> step, subs |-> subs]
NoTasks == [k \in 1..4 |-> Task("idle", <<>>, 0, <<>>)]

\* no scoring function under watch: fn names the function, listed says
\* whether the dict holds the key asked for, x1 and x2 are optional integers,
\* comps are component scores, out is the value once the function was applied
NoScoring ==
    [fn |-> "none", listed |-> FALSE, x1 |-> None, x2 |-> None, comps |-> <<>>,
     out |-> <<>>]

\* no configuration loaded yet
NoConfig == [st |-> "unloaded", weights |-> <<>>, scored |-> <<>>]

\* no mention update made, no read
NoReddit == [log |-> <<>>, read |-> None, names |-> <<>>, at |-> 0]

\* no candidates under watch
NoDiversity == [eps |-> <<>>, rankings |-> <<>>, out |-> None]

\* no refresh of the trending slot in flight, and the background loop not
\* started
NoRefresh ==
    [runs |-> <<>>, loop |-> "off", held |-> <<>>, rounds |-> 0, begun |-> 0, bg |-> 0,
     log |-> <<>>, writer |-> <<>>, attempts |-> <<>>]

\* no second call in flight
NoPeer ==
    [st |-> "idle", profile_hash |-> <<>>, user_request |-> <<>>, call |-> 0,
     log |-> <<>>]

\* no call of the trending manager yet
NoManager ==
    [called |-> FALSE, at |-> 0, before |-> <<>>, fetched |-> FALSE, ok |-> TRUE,
     data |-> [podcasts |-> <<>>, episodes |-> <<>>, cached_at |-> None],
     refreshed |-> [podcasts |-> <<>>, episodes |-> <<>>, cached_at |-> None]]

\* lines 132-142: the summaries, the cache key and the cache lookup
Start(r) ==
    /\ pc = "idle"
    /\ calls < MaxCalls
    /\ LET st == InputStates[inputs]
           profile_hash == CacheKey(ProfileSummary(st), FavoritesSummary(st),
                                    HistorySummary(st), r)
           cached == GetCachedRecommendations(recCache, profile_hash, r, now,
                                              MaxAgeMinutes)
       IN  /\ key' = profile_hash
           /\ IF cached # None
              THEN /\ outcome' = ReturnedResult("cache",
                                      [JsonLoadsResult(cached[1]) EXCEPT !.cached = TRUE])
                   /\ pc' = "done"
              ELSE /\ outcome' = NoOutcome
                   /\ pc' = "query_gen"
    /\ req' = r
    /\ calls' = calls + 1
    /\ queries' = NoQueries
    /\ results' = <<>>
    /\ all_episodes' = <<>>
    /\ scoreData' = NoScoreData
    /\ usage' = NoUsage
    /\ llmCalls' = 0
    /\ fetches' = 0
    /\ queryReply' = 0
    /\ rankReply' = 0
    /\ rankings' = NoQueries
    /\ cache0' = recCache
    /\ UNCHANGED <<persistent, recCache, trendCache, prev, stores, apart>>

\* lines 145-163: the first language-model call, its parsing, and queries[:5]
QueryGen(env) ==
    /\ pc = "query_gen"
    /\ \E i \in env.queryReplies :
        LET reply == QueryReplies[i]
            parsed == ParseJson(reply.text)
        IN  /\ llmCalls' = CallClaude(llmCalls)
            /\ queryReply' = i
            /\ IF ~parsed.ok
               THEN /\ outcome' = RaisedAt("query_gen")
                    /\ pc' = "done"
                    /\ UNCHANGED <<queries, usage>>
               ELSE /\ queries' = parsed.value
                    /\ usage' = reply.usage
                    /\ IF Sliceable(parsed.value)
                       THEN pc' = "gather" /\ UNCHANGED outcome
                       ELSE pc' = "done" /\ outcome' = RaisedAt("slice")
    /\ UNCHANGED <<persistent, recCache, trendCache, prev, stores, req, key, results,
                   all_episodes, scoreData, fetches, calls, rankReply, rankings, cache0,
                   apart>>

\* lines 161-185: the four sources settle, their results are merged, and an
\* empty candidate list ends the call
Gather(env) ==
    /\ pc = "gather"
    /\ \E td \in GetTrendingData(env, trendCache, now) :
       \E s1 \in SearchByQueries(env, Take(queries.items, 5)) :
       \E s2 \in GetTrendingEpisodes(env, 10) :
       \E s3 \in EpisodesFromTrendingFeeds(env, td) :
       \E s4 \in EpisodesFromRedditMentions(env, mentions, now) :
        LET outcomes == <<s1, s2, s3, s4>>
            merged == MergeResults(<<>>, outcomes)
        IN  /\ trendCache' = td.slot
            /\ fetches' = fetches + (IF td.fetched THEN 1 ELSE 0)
            /\ results' = outcomes
            /\ IF GatherRaises(outcomes)
               THEN /\ outcome' = RaisedAt("gather")
                    /\ pc' = "done"
                    /\ UNCHANGED all_episodes
               ELSE /\ all_episodes' = merged
                    /\ IF ShortCircuit(merged)
                       THEN /\ outcome' = ReturnedResult("empty",
                                              Result(<<>>, queries, usage, FALSE))
                            /\ pc' = "done"
                       ELSE /\ pc' = "score_data"
                            /\ UNCHANGED outcome
    /\ UNCHANGED <<persistent, recCache, prev, stores, req, key, queries, scoreData,
                   usage, llmCalls, calls, queryReply, rankReply, rankings, cache0,
                   apart>>

\* lines 188-190: the trending snapshot and the mention counts for scoring
ScoreData(env) ==
    /\ pc = "score_data"
    /\ \E td \in GetTrendingData(env, trendCache, now) :
       \E mention_read \in Faults(env) \cup {Returned(<<>>)} :
        /\ trendCache' = td.slot
        /\ fetches' = fetches + (IF td.fetched THEN 1 ELSE 0)
        /\ IF td.ok /\ mention_read.ok
           THEN /\ scoreData' = [trending_data |-> td.data.podcasts,
                                 reddit_mentions |-> GetRedditMentions(mentions, now, 24)]
                /\ pc' = "rank"
                /\ UNCHANGED outcome
           ELSE /\ outcome' = RaisedAt(IF ~td.ok THEN "trending_data" ELSE "reddit_mentions")
                /\ pc' = "done"
                /\ UNCHANGED scoreData
    /\ UNCHANGED <<persistent, recCache, prev, stores, req, key, queries, results,
                   all_episodes, usage, llmCalls, calls, queryReply, rankReply,
                   rankings, cache0, apart>>

\* lines 193-282: the second language-model call, its parsing, the scoring
\* loop with the feed filter, the sort and the cache store
Rank(env) ==
    /\ pc = "rank"
    /\ \E i \in env.rankReplies :
        LET reply == RankReplies[i]
            parsed == ParseJson(reply.text)
            total_usage == AddUsage(usage, reply.usage)
            ranking == IF parsed.ok THEN RankingDict(parsed.value)
                       ELSE [ok |-> FALSE, d |-> <<>>]
            loop == IF ranking.ok
                    THEN ScoreLoop(all_episodes, ranking.d, scoreData.trending_data,
                                   scoreData.reddit_mentions, now)
                    ELSE [ok |-> FALSE, ranked |-> <<>>, seen_feeds |-> {}]
            result == Result(SortByComposite(loop.ranked), queries, total_usage, FALSE)
        IN  /\ llmCalls' = CallClaude(llmCalls)
            /\ rankReply' = i
            /\ rankings' = IF parsed.ok THEN parsed.value ELSE NoQueries
            /\ IF loop.ok
               THEN /\ usage' = total_usage
                    /\ recCache' = SetCachedRecommendations(recCache, key, req,
                                       JsonDumpsResult(result), now)
                    /\ stores' = stores \cup {[call |-> calls, profile_hash |-> key,
                                               user_request |-> req, inputs |-> inputs,
                                               at |-> now, returned |-> result]}
                    /\ outcome' = ReturnedResult("ranked", result)
               ELSE /\ usage' = IF parsed.ok THEN total_usage ELSE usage
                    /\ outcome' = RaisedAt("rank")
                    /\ UNCHANGED <<recCache, stores>>
            /\ pc' = "done"
    /\ UNCHANGED <<persistent, trendCache, prev, req, key, queries, results,
                   all_episodes, scoreData, fetches, calls, queryReply, cache0, apart>>

\* the call has returned or raised; its locals are gone
Return ==
    /\ pc = "done"
    /\ pc' = "idle"
    /\ prev' = [kind |-> outcome.kind, via |-> outcome.via, inputs |-> inputs,
                req |-> req, at |-> now]
    /\ req' = <<>>
    /\ key' = <<>>
    /\ queries' = NoQueries
    /\ results' = <<>>
    /\ all_episodes' = <<>>
    /\ scoreData' = NoScoreData
    /\ usage' = NoUsage
    /\ llmCalls' = 0
    /\ fetches' = 0
    /\ outcome' = NoOutcome
    /\ queryReply' = 0
    /\ rankReply' = 0
    /\ rankings' = NoQueries
    /\ cache0' = {}
    /\ tasks' = NoTasks
    /\ order' = <<>>
    /\ UNCHANGED <<persistent, recCache, trendCache, stores, calls, manager, peer,
                   aside>>

-----------------------------------------------------------------------------
(* The world around a call, between calls. *)

locals == <<pc, req, key, queries, results, all_episodes, scoreData, usage,
            llmCalls, fetches, outcome, queryReply, rankReply, rankings, cache0>>

\* an hour passes
Tick ==
    /\ pc = "idle"
    /\ now < FirstHour + MaxHours
    /\ now' = now + 1
    /\ UNCHANGED <<inputs, mentions, updates, recCache, trendCache, prev, stores,
                   calls, locals, apart>>

\* the user edits the profile, the favorites or the history
ChangeInputs ==
    /\ pc = "idle"
    /\ \E i \in 1..Len(InputStates) : i # inputs /\ inputs' = i
    /\ UNCHANGED <<now, mentions, updates, recCache, trendCache, prev, stores,
                   calls, locals, apart>>

\* background_tasks.refresh_reddit_cache: one update_reddit_mention
MentionUpdate ==
    /\ pc = "idle"
    /\ updates < MaxMentionUpdates
    /\ \E name \in {"Serial", "Crime"} :
        mentions' = UpdateRedditMention(mentions, name, 10, now)
    /\ updates' = updates + 1
    /\ UNCHANGED <<now, inputs, recCache, trendCache, prev, stores, calls, locals, apart>>

-----------------------------------------------------------------------------
(* The gather of lines 161-171, fetch by fetch. asyncio runs the four        *)
(* sources as tasks on one thread: a task runs until it awaits a fetch, and  *)
(* the fetches settle in any order. A step below is one fetch settling, or   *)
(* one task resuming after what it awaited.                                   *)

\* one fetch a source launched with the argument arg
Fetch(st, eps, arg) == [st |-> st, eps |-> eps, arg |-> arg]

\* a wait that only a success ends: C37 must not hold of it
SettledByAnswer(t) == t.st = "ok"

\* an awaitable is done when it has returned or raised
Settled(t) == t.st \in {"ok", "failed"}

\* what gather hands back for one awaitable: its list, or its exception
TaskOutcome(t) == IF t.st = "ok" THEN Returned(t.eps) ELSE Raised

\* a wait that ends when the first awaitable settles: C11 must not hold of it
AnySettled(ts) == \E i \in 1..Len(ts) : Settled(ts[i])

\* await asyncio.gather(*ts): every awaitable has returned or raised
AllSettled(ts) == \A i \in 1..Len(ts) : Settled(ts[i])

\* results in the order the awaitables settled, as asyncio.as_completed would
\* give them: C12 must not hold of it
GatherResultsAsCompleted(ts, settled) ==
    [i \in 1..Len(settled) |-> TaskOutcome(ts[settled[i]])]

\* the list asyncio.gather returns: one result per awaitable, in the order
\* the awaitables were passed, whatever the order they settled in
GatherResults(ts, settled) == [k \in 1..Len(ts) |-> TaskOutcome(ts[k])]

\* source k is one of the four that settled
Settle(k, t) ==
    /\ tasks' = [tasks EXCEPT ![k] = t]
    /\ order' = IF Settled(t) THEN Append(order, k) ELSE order

gatherFrame == <<persistent, recCache, prev, stores, req, key, queries, results,
                 all_episodes, scoreData, usage, llmCalls, calls, queryReply,
                 rankReply, rankings, cache0, manager, peer, aside, outcome, pc>>

\* line 161: gather wraps the four coroutines in tasks
Launch ==
    /\ pc = "gather"
    /\ tasks = NoTasks
    /\ tasks' = [k \in 1..4 |-> Task("running", <<>>, 0, <<>>)]
    /\ UNCHANGED <<gatherFrame, trendCache, fetches, order>>

\* source 1, lines 288-295: the next query is answered, or the loop is over
SearchStep(env) ==
    /\ pc = "gather"
    /\ tasks[1].st = "running"
    /\ LET qs == Take(queries.items, 5)
           t == tasks[1]
       IN  IF t.step = Len(qs)
           THEN Settle(1, [t EXCEPT !.st = "ok"])
           ELSE \E a \in SearchEpisodesByTerm(env, qs[t.step + 1], 5) :
                   IF ~a.ok
                   THEN Settle(1, Task("failed", <<>>, t.step, <<>>))
                   ELSE Settle(1, Task("running", DedupInto(t.eps, a.eps),
                                       t.step + 1, <<>>))
    /\ UNCHANGED <<gatherFrame, trendCache, fetches>>

\* source 2, line 165
TrendingEpisodesSettle(env) ==
    /\ pc = "gather"
    /\ tasks[2].st = "running"
    /\ \E a \in GetTrendingEpisodes(env, 10) :
          Settle(2, Task(IF a.ok THEN "ok" ELSE "failed", a.eps, 1, <<>>))
    /\ UNCHANGED <<gatherFrame, trendCache, fetches>>

\* source 3, lines 300-309: the snapshot arrives and the fetches of the top
\* feeds are launched
TrendingFeedsStart(env) ==
    /\ pc = "gather"
    /\ tasks[3].st = "running"
    /\ tasks[3].step = 0
    /\ \E td \in GetTrendingData(env, trendCache, now) :
        /\ trendCache' = td.slot
        /\ fetches' = fetches + (IF td.fetched THEN 1 ELSE 0)
        /\ IF ~td.ok THEN Settle(3, Task("failed", <<>>, 1, <<>>))
           ELSE IF td.data.podcasts = <<>> THEN Settle(3, Task("ok", <<>>, 1, <<>>))
           ELSE LET feed_ids == Take(DictKeys(td.data.podcasts), 5)
                IN  Settle(3, Task("running", <<>>, 1,
                                   [i \in 1..Len(feed_ids) |->
                                       Fetch("running", <<>>, feed_ids[i])]))
    /\ UNCHANGED gatherFrame

\* one get_episodes_by_feed_id of source 3 settles
FeedSettle(env) ==
    /\ pc = "gather"
    /\ tasks[3].st = "running"
    /\ \E i \in 1..Len(tasks[3].subs) :
        /\ tasks[3].subs[i].st = "running"
        /\ \E a \in GetEpisodesByFeedId(env, tasks[3].subs[i].arg, 2) :
              Settle(3, [tasks[3] EXCEPT !.subs[i].st = IF a.ok THEN "ok" ELSE "failed",
                                         !.subs[i].eps = a.eps])
    /\ UNCHANGED <<gatherFrame, trendCache, fetches>>

\* lines 311-324: the inner gather of source 3 returns and its results are merged
FeedsDone ==
    /\ pc = "gather"
    /\ tasks[3].st = "running"
    /\ tasks[3].step = 1
    /\ AllSettled(tasks[3].subs)
    /\ Settle(3, [tasks[3] EXCEPT
                    !.st = "ok",
                    !.eps = MergeResults(<<>>, GatherResults(tasks[3].subs, <<>>))])
    /\ UNCHANGED <<gatherFrame, trendCache, fetches>>

\* source 4, lines 328-336: the mention store is read and the searches for
\* the top names are launched
MentionsStart(env) ==
    /\ pc = "gather"
    /\ tasks[4].st = "running"
    /\ tasks[4].step = 0
    /\ \E read \in Faults(env) \cup {Returned(<<>>)} :
        LET reddit_mentions == GetRedditMentions(mentions, now, 24)
            names == Take(DictKeys(reddit_mentions), 3)
        IN  IF ~read.ok THEN Settle(4, Task("failed", <<>>, 1, <<>>))
            ELSE IF reddit_mentions = <<>> THEN Settle(4, Task("ok", <<>>, 1, <<>>))
            ELSE Settle(4, Task("running", <<>>, 1,
                                [i \in 1..Len(names) |-> Fetch("running", <<>>, names[i])]))
    /\ UNCHANGED <<gatherFrame, trendCache, fetches>>

\* one search_episodes_by_term of source 4 settles
MentionSettle(env) ==
    /\ pc = "gather"
    /\ tasks[4].st = "running"
    /\ \E i \in 1..Len(tasks[4].subs) :
        /\ tasks[4].subs[i].st = "running"
        /\ \E a \in SearchEpisodesByTerm(env, tasks[4].subs[i].arg, 2) :
              Settle(4, [tasks[4] EXCEPT !.subs[i].st = IF a.ok THEN "ok" ELSE "failed",
                                         !.subs[i].eps = a.eps])
    /\ UNCHANGED <<gatherFrame, trendCache, fetches>>

\* lines 338-351: the inner gather of source 4 returns and its results are merged
MentionsDone ==
    /\ pc = "gather"
    /\ tasks[4].st = "running"
    /\ tasks[4].step = 1
    /\ AllSettled(tasks[4].subs)
    /\ Settle(4, [tasks[4] EXCEPT
                    !.st = "ok",
                    !.eps = MergeResults(<<>>, GatherResults(tasks[4].subs, <<>>))])
    /\ UNCHANGED <<gatherFrame, trendCache, fetches>>

\* lines 161-185: the outer gather returns, the results are merged, and an
\* empty candidate list ends the call
Merge ==
    /\ pc = "gather"
    /\ tasks # NoTasks
    /\ AllSettled(tasks)
    /\ LET outcomes == GatherResults(tasks, order)
           merged == MergeResults(<<>>, outcomes)
       IN  /\ results' = outcomes
           /\ IF GatherRaises(outcomes)
              THEN /\ outcome' = RaisedAt("gather")
                   /\ pc' = "done"
                   /\ UNCHANGED all_episodes
              ELSE /\ all_episodes' = merged
                   /\ IF ShortCircuit(merged)
                      THEN /\ outcome' = ReturnedResult("empty",
                                             Result(<<>>, queries, usage, FALSE))
                           /\ pc' = "done"
                      ELSE /\ pc' = "score_data"
                           /\ UNCHANGED outcome
    /\ UNCHANGED <<persistent, recCache, trendCache, prev, stores, req, key, queries,
                   scoreData, usage, llmCalls, fetches, calls, queryReply, rankReply,
                   rankings, cache0, apart>>

-----------------------------------------------------------------------------
(* Specifications. *)

\* every answer the model knows, and transport errors
RichEnv ==
    [queryReplies |-> 1..Len(QueryReplies),
     rankReplies |-> 1..Len(RankReplies),
     faults |-> TRUE,
     search |-> {<<>>, <<E1, E3>>},
     trendingEpisodes |-> {<<>>, <<E4, E1b, E4>>},
     trendingPodcasts |-> {<<>>, <<[k |-> IntKey(2), v |-> [rank |-> Some(0)]],
                                   [k |-> IntKey(1), v |-> [rank |-> Some(1)]]>>},
     byFeed |-> <<<<E2, E1b>>, <<E5>>>>]

Constructed ==
    /\ now = FirstHour
    /\ inputs = 1
    /\ recCache = {}
    /\ trendCache = <<>>
    /\ mentions = <<>>
    /\ updates = 0
    /\ pc = "idle"
    /\ req = <<>>
    /\ key = <<>>
    /\ queries = NoQueries
    /\ results = <<>>
    /\ all_episodes = <<>>
    /\ scoreData = NoScoreData
    /\ usage = NoUsage
    /\ llmCalls = 0
    /\ fetches = 0
    /\ outcome = NoOutcome
    /\ prev = [kind |-> "none", via |-> "none", inputs |-> 1, req |-> <<>>, at |-> FirstHour]
    /\ stores = {}
    /\ calls = 0
    /\ queryReply = 0
    /\ rankReply = 0
    /\ rankings = NoQueries
    /\ cache0 = {}
    /\ manager = NoManager
    /\ tasks = NoTasks
    /\ order = <<>>
    /\ peer = NoPeer

\* the state after construction
Init ==
    /\ Constructed
    /\ scoring = NoScoring
    /\ config = NoConfig
    /\ reddit = NoReddit
    /\ diversity = NoDiversity
    /\ refresh = NoRefresh

\* one request text, every answer of the environment
Next ==
    \/ Start(<<>>)
    \/ QueryGen(RichEnv)
    \/ Gather(RichEnv)
    \/ ScoreData(RichEnv)
    \/ Rank(RichEnv)
    \/ Return
    \/ MentionUpdate

Spec == Init /\ [][Next]_vars

\* the array asked for or a text that is no JSON, and a directory that never fails
PlainEnv ==
    [queryReplies |-> {1, 3},
     rankReplies |-> {2, 3, 4},
     faults |-> FALSE,
     search |-> {<<>>, <<E1, E2>>},
     trendingEpisodes |-> {<<>>},
     trendingPodcasts |-> {<<>>},
     byFeed |-> <<<<E2, E1b>>, <<E5>>>>]

\* calls over time: the clock, the stored inputs and the request text change
\* between calls
NextCache ==
    \/ \E r \in Requests : Start(r)
    \/ QueryGen(PlainEnv)
    \/ Gather(PlainEnv)
    \/ ScoreData(PlainEnv)
    \/ Rank(PlainEnv)
    \/ Return
    \/ Tick
    \/ ChangeInputs

SpecCache == Init /\ [][NextCache]_vars

\* hours the clock may advance while the trending slot is watched
MaxTrendingHours == 5

\* _get_trending_data is called: the slot it found, what it returned, and
\* the snapshot the refresh that filled the slot had returned
TrendingCall(env) ==
    /\ pc = "idle"
    /\ \E td \in GetTrendingData(env, trendCache, now) :
        /\ trendCache' = td.slot
        /\ manager' = [called |-> TRUE, at |-> now, before |-> trendCache,
                       fetched |-> td.fetched, ok |-> td.ok, data |-> td.data,
                       refreshed |-> IF td.fetched /\ td.ok THEN td.data
                                     ELSE manager.refreshed]
    /\ UNCHANGED <<now, inputs, mentions, updates, recCache, prev, stores, calls,
                   locals, tasks, order, peer, aside>>

\* an hour passes over the trending slot
TrendingTick ==
    /\ pc = "idle"
    /\ now < FirstHour + MaxTrendingHours
    /\ now' = now + 1
    /\ UNCHANGED <<inputs, mentions, updates, recCache, trendCache, prev, stores,
                   calls, locals, apart>>

\* the trending manager alone, called at any hour
NextTrending ==
    \/ TrendingCall(RichEnv)
    \/ TrendingTick

SpecTrending == Init /\ [][NextTrending]_vars

\* second calls that may run beside the calls followed
MaxPeers == 1

\* what the second call computes: the queries of the first answer, and a
\* ranking that recommends nothing
PeerResult ==
    Result(<<>>, ParseJson(QueryReplies[1].text).value,
           AddUsage(QueryReplies[1].usage, RankReplies[3].usage), FALSE)

\* lines 136-142 in a second call, made with the stored inputs and the
\* request of the call in flight while that call is awaiting: its lookup
\* finds no fresh row either
PeerStart ==
    /\ pc \in {"query_gen", "gather", "score_data", "rank"}
    /\ peer.st # "missed"
    /\ peer.call < MaxPeers
    /\ GetCachedRecommendations(recCache, key, req, now, MaxAgeMinutes) = None
    /\ peer' = [peer EXCEPT !.st = "missed", !.profile_hash = key,
                            !.user_request = req, !.call = peer.call + 1]
    /\ UNCHANGED <<persistent, recCache, trendCache, prev, stores, calls, locals,
                   manager, tasks, order, aside>>

\* lines 272-280 in the second call: it stores its result; the log keeps
\* what it stored, when, and the stores that had been made before
PeerStore ==
    /\ peer.st = "missed"
    /\ recCache' = SetCachedRecommendations(recCache, peer.profile_hash,
                        peer.user_request, JsonDumpsResult(PeerResult), now)
    /\ peer' = [peer EXCEPT
                   !.st = "stored",
                   !.log = Append(peer.log,
                               [profile_hash |-> peer.profile_hash,
                                user_request |-> peer.user_request, at |-> now,
                                returned |-> PeerResult, seen |-> stores])]
    /\ UNCHANGED <<persistent, trendCache, prev, stores, calls, locals,
                   manager, tasks, order, aside>>

\* the language model answers as asked; the directory never fails
RaceEnv ==
    [queryReplies |-> {1},
     rankReplies |-> {2},
     faults |-> FALSE,
     search |-> {<<E1, E2>>},
     trendingEpisodes |-> {<<>>},
     trendingPodcasts |-> {<<>>},
     byFeed |-> <<<<E2, E1b>>, <<E5>>>>]

\* calls over time, with a second call beside them
NextRace ==
    \/ \E r \in Requests : Start(r)
    \/ QueryGen(RaceEnv)
    \/ Gather(RaceEnv)
    \/ ScoreData(RaceEnv)
    \/ Rank(RaceEnv)
    \/ Return
    \/ Tick
    \/ ChangeInputs
    \/ PeerStart
    \/ PeerStore

SpecRace == Init /\ [][NextRace]_vars

-----------------------------------------------------------------------------
(* The scoring functions of scoring.py, each applied to arguments drawn from *)
(* the sets below.                                                            *)

\* the largest mention count drawn; counts are drawn from -MaxCount on
MaxCount == 12

\* get_trending_podcasts(max=100): the largest rank a snapshot holds
TopRank == 100

\* a function and its arguments, not yet applied
Sample(fn, listed, x1, x2, comps) ==
    [fn |-> fn, listed |-> listed, x1 |-> x1, x2 |-> x2, comps |-> comps,
     out |-> <<>>]

\* the "rank" of a snapshot entry: missing, negative, small, the last ranks a
\* fetch of 100 feeds gives, and two ranks past the underflow of exp
RankInputs ==
    {None} \cup {Some(r) : r \in {-1, 0, 1, 2, 3, 10, 30, TopRank - 1, TopRank,
                                  ExpUnderflow, ExpUnderflow + 1}}

CountInputs == {Some(c) : c \in (0 - MaxCount)..MaxCount}

\* component scores handed to calculate_composite_score, in thousandths
ComponentInputs == [1..5 -> {0, 500, 1000}]

\* the "score" of a ranking entry: the scale asked for is 1 to 10
ModelScoreInputs == {Some(0), Some(5), Some(10), Some(12)}

\* date_published as a clock reading: missing, in the future, now, hours,
\* days and months ago
PublishedInputs ==
    {None} \cup {Some(FirstHour - age) : age \in {-5, 0, 1, 24, 72, 73, 1000}}

\* duration_seconds: missing, none, the preferred half hour, hours
DurationInputs == {None, Some(0), Some(1800), Some(3600), Some(36000)}

ScoringInputs ==
    {Sample("trending", listed, r1, r2, <<>>) :
        listed \in BOOLEAN, r1 \in RankInputs, r2 \in RankInputs}
    \cup {Sample("social", listed, c1, c2, <<>>) :
            listed \in BOOLEAN, c1 \in CountInputs, c2 \in CountInputs}
    \cup {Sample("composite", FALSE, m, None, comps) :
            m \in ModelScoreInputs, comps \in ComponentInputs}
    \cup {Sample("recency", FALSE, d, None, <<>>) : d \in PublishedInputs}
    \cup {Sample("duration", FALSE, d, None, <<>>) : d \in DurationInputs}
    \cup {Sample("popularity", FALSE, None, None, <<>>)}

\* a snapshot's podcasts mapping that lists feed 1 with the given rank, or
\* lists another feed only
SnapshotOf(listed, rank) ==
    <<[k |-> IntKey(IF listed THEN 1 ELSE 2), v |-> [rank |-> rank]]>>

\* mention counts that hold the name "serial" with the given count, or hold
\* it in another spelling only
MentionsOf(listed, count) ==
    <<[k |-> IF listed THEN "serial" ELSE "Serial", v |-> count[1]]>>

Apply(fn, out) ==
    /\ scoring.fn = fn
    /\ scoring.out = <<>>
    /\ scoring' = [scoring EXCEPT !.out = out]
    /\ UNCHANGED <<persistent, recCache, trendCache, prev, stores, calls, locals,
                   manager, tasks, order, peer, config, reddit, diversity, refresh>>

\* calculate_trending_score(1, snapshot), for each of the two ranks
ScoreTrending ==
    Apply("trending",
          <<CalculateTrendingScore(1, SnapshotOf(scoring.listed, scoring.x1)),
            CalculateTrendingScore(1, SnapshotOf(scoring.listed, scoring.x2))>>)

\* calculate_social_score("serial", mentions), for each of the two counts
ScoreSocial ==
    Apply("social",
          <<CalculateSocialScore("serial", MentionsOf(scoring.listed, scoring.x1)),
            CalculateSocialScore("serial", MentionsOf(scoring.listed, scoring.x2))>>)

\* calculate_popularity_score(episode)
ScorePopularity ==
    Apply("popularity", <<CalculatePopularityScore(E1)>>)

\* calculate_recency_score(episode)
ScoreRecency ==
    Apply("recency",
          <<CalculateRecencyScore(Episode(1, "a", None, "", None, scoring.x1), now)>>)

\* calculate_duration_match(episode, 30)
ScoreDuration ==
    Apply("duration",
          <<CalculateDurationMatch(Episode(1, "a", None, "", scoring.x1, None), 30)>>)

\* calculate_composite_score with ai_score = score / 10.0, as line 239 has it
ScoreComposite ==
    Apply("composite",
          <<CalculateCompositeScore(scoring.comps[1], scoring.comps[2], scoring.comps[3],
                                    scoring.comps[4], scoring.comps[5],
                                    scoring.x1[1] * 100)>>)

InitScoring ==
    /\ Constructed
    /\ scoring \in ScoringInputs
    /\ config = NoConfig
    /\ reddit = NoReddit
    /\ diversity = NoDiversity
    /\ refresh = NoRefresh

NextScoring ==
    \/ ScoreTrending
    \/ ScoreSocial
    \/ ScorePopularity
    \/ ScoreRecency
    \/ ScoreDuration
    \/ ScoreComposite

SpecScoring == InitScoring /\ [][NextScoring]_vars

-----------------------------------------------------------------------------
(* config.py: the weights and their validation. Weights are written in      *)
(* ten-thousandths here, so that a sum may miss 1.0 by less than the         *)
(* tolerance of 0.001; a weights class is the sequence AI_MATCH,              *)
(* DURATION_MATCH, RECENCY, TRENDING, SOCIAL_BUZZ, POPULARITY.                *)

\* the weights config.py sets
DefaultWeights ==
    <<AI_MATCH * 10, DURATION_MATCH * 10, RECENCY * 10, TRENDING * 10,
      SOCIAL_BUZZ * 10, POPULARITY * 10>>

\* the weights an edited config.py may set: AI_MATCH moved by the amounts
\* below, or DURATION_MATCH dropped
WeightChoices ==
    {[DefaultWeights EXCEPT ![1] = @ + d] :
        d \in {-5000, -100, -10, -9, -5, 0, 5, 9, 10, 11, 100, 4900}}
    \cup {[DefaultWeights EXCEPT ![2] = 0]}

\* sum([...]) of the six weights
RECURSIVE SumSeq(_)
SumSeq(ws) == IF ws = <<>> THEN 0 ELSE Head(ws) + SumSeq(Tail(ws))

\* a validation that lets a sum pass that is off by the tolerance itself: C24
\* must not hold of it
ValidateRaisesBeyond(weights) ==
    LET total == SumSeq(weights)
    IN  Max(total - 10000, 10000 - total) > 10

\* RecommendationWeights.validate raises: abs(total - 1.0) >= 0.001
ValidateRaises(weights) ==
    LET total == SumSeq(weights)
    IN  Max(total - 10000, 10000 - total) >= 10

\* calculate_composite_score(..., weights=weights): it reads the six weights
\* and validates nothing; the value is in units of 1e-7
CompositeWith(weights, comps, ai_score) ==
    Clamp(comps[1] * weights[4] + comps[2] * weights[5] + comps[3] * weights[6]
          + comps[4] * weights[3] + comps[5] * weights[2] + ai_score * weights[1],
          1000 * 10000)

configFrame == <<persistent, recCache, trendCache, prev, stores, calls, locals,
                 manager, tasks, order, peer, scoring, reddit, diversity, refresh>>

\* line 49: config.py is imported, with the weights it sets, and validate runs
LoadConfig ==
    /\ config.st = "unloaded"
    /\ \E w \in WeightChoices :
          config' = [st |-> IF ValidateRaises(w) THEN "failed" ELSE "loaded",
                     weights |-> w, scored |-> <<>>]
    /\ UNCHANGED configFrame

\* a request scores an episode with the weights loaded; a package whose
\* import failed serves no request
ScoreWithConfig ==
    /\ config.st = "loaded"
    /\ config.scored = <<>>
    /\ \E comps \in ComponentInputs, m \in ModelScoreInputs :
          config' = [config EXCEPT
                        !.scored = <<[raised |-> FALSE,
                                      value |-> CompositeWith(config.weights, comps,
                                                              m[1] * 100)]>>]
    /\ UNCHANGED configFrame

NextConfig ==
    \/ LoadConfig
    \/ ScoreWithConfig

SpecConfig == Init /\ [][NextConfig]_vars

-----------------------------------------------------------------------------
(* The mention store over days: updates by the background refresh, and the  *)
(* read of the mention source.                                               *)

\* mention updates and waits the store is followed through
MaxMentionLog == 4
MaxWaits == 1

\* the names the parser may report, and the count it reports for each
MentionNames == {"Serial", "serial", "crime", "news", "jazz"}

IncrementOf(name) ==
    CASE name = "Serial" -> 1
      [] name = "serial" -> 2
      [] name = "crime" -> 1
      [] name = "news" -> 2
      [] OTHER -> 5

\* hours that pass between two steps: a few, or more than a day
WaitHours == {4, 26}

redditFrame == <<inputs, updates, recCache, trendCache, prev, stores, calls, locals,
                 manager, tasks, order, peer, scoring, config, diversity, refresh>>

\* background_tasks.py 62-63: one update_reddit_mention of the refresh
RedditUpdate ==
    /\ reddit.read = None
    /\ Len(reddit.log) < MaxMentionLog
    /\ \E name \in MentionNames :
        /\ mentions' = UpdateRedditMention(mentions, name, IncrementOf(name), now)
        /\ reddit' = [reddit EXCEPT
                        !.log = Append(@, [name |-> name,
                                           increment |-> IncrementOf(name),
                                           at |-> now])]
    /\ UNCHANGED <<redditFrame, now>>

\* hours pass; at counts the waits
RedditWait ==
    /\ reddit.read = None
    /\ reddit.at < MaxWaits
    /\ \E d \in WaitHours : now' = now + d
    /\ reddit' = [reddit EXCEPT !.at = @ + 1]
    /\ UNCHANGED <<redditFrame, mentions>>

\* recommender.py 329-336: the mention source reads the counts of the last 24
\* hours and picks the names it will search
RedditRead ==
    /\ reddit.read = None
    /\ LET reddit_mentions == GetRedditMentions(mentions, now, 24)
       IN  reddit' = [reddit EXCEPT !.read = Some(reddit_mentions),
                                    !.names = Take(DictKeys(reddit_mentions), 3)]
    /\ UNCHANGED <<redditFrame, now, mentions>>

NextMentions ==
    \/ RedditUpdate
    \/ RedditWait
    \/ RedditRead

SpecMentions == Init /\ [][NextMentions]_vars

-----------------------------------------------------------------------------
(* The scoring loop of recommend, lines 215-270, applied to candidate lists *)
(* and rankings drawn from the sets below.                                   *)

\* the longest candidate list drawn
MaxCandidates == 3

\* feed_id of a candidate: missing, 0, or one of two feeds
FeedInputs == {None, Some(0), Some(1), Some(2)}

\* what the ranking response says of a candidate: nothing, or a score
RankedScoreInputs == {None, Some(2), Some(9)}

\* the candidate with id i
Candidate(i, feed_id) == Episode(i, "t", feed_id, "", None, None)

\* the ranking response that gives candidate i the score s[i], the candidates
\* in the reverse of their order in the list
RankingsOf(s) ==
    LET n == Len(s)
        ids == SelectSeq([k \in 1..n |-> n + 1 - k], LAMBDA i : s[i] # None)
    IN  JList([k \in 1..Len(ids) |-> Ranking(Some(ids[k]), s[ids[k]], Some("x"))])

FilterInputs ==
    UNION {{[eps |-> [i \in 1..n |-> Candidate(i, f[i])],
             rankings |-> RankingsOf(s),
             out |-> None] : f \in [1..n -> FeedInputs], s \in [1..n -> RankedScoreInputs]}
           : n \in 0..MaxCandidates}

\* lines 215-270: the ranking dict, the loop over the candidates and the sort
FilterApply ==
    /\ diversity.out = None
    /\ LET ranking == RankingDict(diversity.rankings)
           scored == ScoreLoop(diversity.eps, ranking.d, <<>>, <<>>, now)
       IN  diversity' = [diversity EXCEPT !.out = Some(SortByComposite(scored.ranked))]
    /\ UNCHANGED <<persistent, recCache, trendCache, prev, stores, calls, locals,
                   manager, tasks, order, peer, scoring, config, reddit, refresh>>

InitFilter ==
    /\ Constructed
    /\ scoring = NoScoring
    /\ config = NoConfig
    /\ reddit = NoReddit
    /\ diversity \in FilterInputs
    /\ refresh = NoRefresh

NextFilter == FilterApply

SpecFilter == InitFilter /\ [][NextFilter]_vars

-----------------------------------------------------------------------------
(* The writers of the trending slot side by side: _get_trending_data of      *)
(* recommend calls in flight, and background_cache_refresh_loop with its two *)
(* refreshes. A step is what one of them does between two awaits.            *)

\* recommend calls that may refresh the slot, and rounds of the loop
MaxDemand == 2
MaxRounds == 3

\* what the directory lists as trending when the n-th refresh asks: feed n
\* and feed 9, episode 10n and episode 7
PodcastsAt(n) ==
    <<[k |-> IntKey(n), v |-> [rank |-> Some(0)]], [k |-> IntKey(9), v |-> [rank |-> Some(1)]]>>

EpisodesAt(n) == <<Candidate(10 * n, None), Candidate(7, None)>>

\* background_tasks.py 27-30: {ep.id: idx + 1 for idx, ep in enumerate(...)};
\* the value is a number, not a record
EpisodesDict(trending_episodes) ==
    LET F[i \in 0..Len(trending_episodes)] ==
            IF i = 0 THEN <<>>
            ELSE DictSet(F[i - 1], IntKey(trending_episodes[i].id), [number |-> i])
    IN  F[Len(trending_episodes)]

\* one refresh that ended: who ran it, which it was, what it fetched and
\* whether it stored
Refreshed(by, n, podcasts, episodes_list, wrote) ==
    [by |-> by, n |-> n, podcasts |-> podcasts, episodes_list |-> episodes_list,
     wrote |-> wrote, at |-> now]

\* the record r of the refreshes, with the refresh that ended last and the
\* one that stored last
Noted(r, ended) ==
    [r EXCEPT !.log = <<ended>>, !.writer = IF ended.wrote THEN <<ended>> ELSE @]

\* a refresh whose failure ends the loop: C40 must not hold of it
RefreshRaises(position) == "ended"

\* background_tasks.py 46-47 and 67-68: "except Exception" logs the error and
\* the refresh returns; the loop goes on from the position after it
RefreshAbsorbs(position) == position

refreshFrame == <<inputs, updates, recCache, prev, stores, calls, locals, manager,
                  tasks, order, peer, scoring, config, reddit, diversity>>

\* recommender.py 355-360: a recommend call enters _get_trending_data; a
\* stale slot makes it await the trending podcasts
DemandBegin ==
    /\ Len(refresh.runs) < MaxDemand
    /\ IF IsTrendingCacheStale(trendCache, now, TRENDING_CACHE_TTL)
       THEN refresh' = [refresh EXCEPT
                          !.begun = @ + 1,
                          !.runs = Append(@, [st |-> "podcasts", n |-> refresh.begun + 1,
                                              podcasts |-> <<>>])]
       ELSE refresh' = [refresh EXCEPT
                          !.runs = Append(@, [st |-> "cached", n |-> 0, podcasts |-> <<>>])]
    /\ UNCHANGED <<refreshFrame, now, mentions, trendCache>>

\* recommender.py 360-361: get_trending_podcasts settles; an error leaves
\* _get_trending_data
DemandPodcasts ==
    \E i \in 1..Len(refresh.runs) :
        /\ refresh.runs[i].st = "podcasts"
        /\ \E ok \in BOOLEAN :
              refresh' =
                IF ok
                THEN [refresh EXCEPT !.runs[i].st = "episodes",
                                     !.runs[i].podcasts = PodcastsAt(refresh.runs[i].n)]
                ELSE Noted([refresh EXCEPT !.runs[i].st = "failed"],
                           Refreshed("demand", refresh.runs[i].n, None, None, FALSE))
        /\ UNCHANGED <<refreshFrame, now, mentions, trendCache>>

\* recommender.py 361-373: get_trending_episodes settles, the ranks are built
\* and the slot is stored
DemandEpisodes ==
    \E i \in 1..Len(refresh.runs) :
        /\ refresh.runs[i].st = "episodes"
        /\ \E ok \in BOOLEAN :
              IF ok
              THEN LET episodes_list == EpisodesAt(refresh.runs[i].n)
                       cache_data == [podcasts |-> refresh.runs[i].podcasts,
                                      episodes |-> EpisodeRanks(episodes_list)]
                   IN  /\ trendCache' = SetTrendingCache(cache_data, now)
                       /\ refresh' = Noted([refresh EXCEPT !.runs[i].st = "done"],
                                           Refreshed("demand", refresh.runs[i].n,
                                                     Some(refresh.runs[i].podcasts),
                                                     Some(episodes_list), TRUE))
              ELSE /\ refresh' = Noted([refresh EXCEPT !.runs[i].st = "failed"],
                                       Refreshed("demand", refresh.runs[i].n,
                                                 Some(refresh.runs[i].podcasts),
                                                 None, FALSE))
                   /\ UNCHANGED trendCache
        /\ UNCHANGED <<refreshFrame, now, mentions>>

\* background_tasks.py 73-78 and 14-20: the loop starts and its first
\* trending refresh awaits the trending podcasts
LoopStart ==
    /\ refresh.loop = "off"
    /\ refresh' = [refresh EXCEPT !.loop = "trending_podcasts", !.rounds = 1,
                                  !.begun = @ + 1, !.bg = refresh.begun + 1,
                                  !.attempts = Append(@, "trending")]
    /\ UNCHANGED <<refreshFrame, now, mentions, trendCache>>

\* background_tasks.py 20-25 and 46-47: get_trending_podcasts settles; an
\* error is logged and the loop sleeps
LoopPodcasts ==
    /\ refresh.loop = "trending_podcasts"
    /\ \E ok \in BOOLEAN :
          refresh' =
            IF ok
            THEN [refresh EXCEPT !.loop = "trending_episodes",
                                 !.held = PodcastsAt(refresh.bg)]
            ELSE Noted([refresh EXCEPT !.loop = RefreshAbsorbs("sleep_after_trending")],
                       Refreshed("background", refresh.bg, None, None, FALSE))
    /\ UNCHANGED <<refreshFrame, now, mentions, trendCache>>

\* background_tasks.py 25-39 and 81: get_trending_episodes settles; an error
\* leaves episodes_dict empty; the slot is stored either way and the loop
\* sleeps
LoopEpisodes ==
    /\ refresh.loop = "trending_episodes"
    /\ \E ok \in BOOLEAN :
          LET trending_episodes == EpisodesAt(refresh.bg)
              episodes_dict == IF ok THEN EpisodesDict(trending_episodes) ELSE <<>>
          IN  /\ trendCache' = SetTrendingCache([podcasts |-> refresh.held,
                                                 episodes |-> episodes_dict], now)
              /\ refresh' = Noted([refresh EXCEPT !.loop = "sleep_after_trending",
                                                  !.held = <<>>],
                                  Refreshed("background", refresh.bg,
                                            Some(refresh.held),
                                            IF ok THEN Some(trending_episodes) ELSE None,
                                            TRUE))
    /\ UNCHANGED <<refreshFrame, now, mentions>>

\* background_tasks.py 81-87 and 50-68: two hours later refresh_reddit_cache
\* runs, without awaiting: the parser raises, or a count is added; the loop
\* sleeps again
LoopReddit ==
    /\ refresh.loop = "sleep_after_trending"
    /\ now' = now + 2
    /\ \E ok \in BOOLEAN :
          /\ mentions' = IF ok THEN UpdateRedditMention(mentions, "Serial", 1, now + 2)
                         ELSE mentions
          /\ refresh' =
                IF ok
                THEN [refresh EXCEPT !.loop = "sleep_after_reddit",
                                     !.attempts = Append(@, "reddit")]
                ELSE Noted([refresh EXCEPT !.loop = RefreshAbsorbs("sleep_after_reddit"),
                                           !.attempts = Append(@, "reddit")],
                           Refreshed("reddit", 0, None, None, FALSE))
    /\ UNCHANGED <<refreshFrame, trendCache>>

\* background_tasks.py 87, 76-78: two hours later the next round begins with
\* a trending refresh
LoopAgain ==
    /\ refresh.loop = "sleep_after_reddit"
    /\ refresh.rounds < MaxRounds
    /\ now' = now + 2
    /\ refresh' = [refresh EXCEPT !.loop = "trending_podcasts", !.rounds = @ + 1,
                                  !.begun = @ + 1, !.bg = refresh.begun + 1,
                                  !.attempts = Append(@, "trending")]
    /\ UNCHANGED <<refreshFrame, mentions, trendCache>>

\* background_tasks.py 89-91: the task is cancelled at the await it is at
LoopCancel ==
    /\ refresh.loop \in {"trending_podcasts", "trending_episodes",
                         "sleep_after_trending", "sleep_after_reddit"}
    /\ refresh' = [refresh EXCEPT !.loop = "cancelled", !.held = <<>>]
    /\ UNCHANGED <<refreshFrame, now, mentions, trendCache>>

\* recommend calls that refresh the slot while the loop makes its first
\* trending refresh and its first Reddit refresh
NextRefresh ==
    \/ DemandBegin
    \/ DemandPodcasts
    \/ DemandEpisodes
    \/ LoopStart
    \/ LoopPodcasts
    \/ LoopEpisodes
    \/ LoopReddit

SpecRefresh == Init /\ [][NextRefresh]_vars

\* the loop alone, round after round, until it is cancelled
NextLoop ==
    \/ LoopStart
    \/ LoopPodcasts
    \/ LoopEpisodes
    \/ LoopReddit
    \/ LoopAgain
    \/ LoopCancel

\* the event loop runs a task that can run: a directory fetch settles, by an
\* answer, an error or its timeout of 30 seconds (podcast_index.py), the feed
\* parse of the Reddit refresh returns, and a sleep ends
LoopFairness ==
    /\ WF_vars(LoopStart)
    /\ WF_vars(LoopPodcasts)
    /\ WF_vars(LoopEpisodes)
    /\ WF_vars(LoopReddit)
    /\ WF_vars(LoopAgain)

SpecLoop == Init /\ [][NextLoop]_vars /\ LoopFairness

\* one answer of each kind from the language model; a directory whose every
\* fetch returns or fails
GatherEnv ==
    [queryReplies |-> {1},
     rankReplies |-> {1},
     faults |-> TRUE,
     search |-> {<<E1, E3>>},
     trendingEpisodes |-> {<<E4, E1b, E4>>},
     trendingPodcasts |-> {<<[k |-> IntKey(2), v |-> [rank |-> Some(0)]],
                             [k |-> IntKey(1), v |-> [rank |-> Some(1)]]>>},
     byFeed |-> <<<<E2, E1b>>, <<E5>>>>]

\* recommend with the gather taken fetch by fetch
NextGather ==
    \/ Start(<<>>)
    \/ QueryGen(GatherEnv)
    \/ Launch
    \/ SearchStep(GatherEnv)
    \/ TrendingEpisodesSettle(GatherEnv)
    \/ TrendingFeedsStart(GatherEnv)
    \/ FeedSettle(GatherEnv)
    \/ FeedsDone
    \/ MentionsStart(GatherEnv)
    \/ MentionSettle(GatherEnv)
    \/ MentionsDone
    \/ Merge
    \/ ScoreData(GatherEnv)
    \/ Rank(GatherEnv)
    \/ Return
    \/ MentionUpdate

SpecGather == Init /\ [][NextGather]_vars

\* every fetch the directory client was asked for settles, by an answer, an
\* error or its timeout of 30 seconds, and the event loop resumes a task that
\* can run; nothing is assumed of the language model
DirectoryFairness ==
    /\ WF_vars(Launch)
    /\ WF_vars(SearchStep(GatherEnv))
    /\ WF_vars(TrendingEpisodesSettle(GatherEnv))
    /\ WF_vars(TrendingFeedsStart(GatherEnv))
    /\ WF_vars(FeedSettle(GatherEnv))
    /\ WF_vars(FeedsDone)
    /\ WF_vars(MentionsStart(GatherEnv))
    /\ WF_vars(MentionSettle(GatherEnv))
    /\ WF_vars(MentionsDone)
    /\ WF_vars(Merge)
    /\ WF_vars(ScoreData(GatherEnv))

\* a language-model call that was made returns: the call is not for ever at
\* inside _call_claude (recommender.py 149 and 209)
ModelFairness == []<>(pc \notin {"query_gen", "rank"})

\* the first recommend call of the process
StartOnce == calls = 0 /\ Start(<<>>)

\* one recommend call, its gather taken fetch by fetch
NextLive ==
    \/ StartOnce
    \/ QueryGen(GatherEnv)
    \/ Launch
    \/ SearchStep(GatherEnv)
    \/ TrendingEpisodesSettle(GatherEnv)
    \/ TrendingFeedsStart(GatherEnv)
    \/ FeedSettle(GatherEnv)
    \/ FeedsDone
    \/ MentionsStart(GatherEnv)
    \/ MentionSettle(GatherEnv)
    \/ MentionsDone
    \/ Merge
    \/ ScoreData(GatherEnv)
    \/ Rank(GatherEnv)
    \/ Return
    \/ MentionUpdate

SpecLive == Init /\ [][NextLive]_vars /\ DirectoryFairness

-----------------------------------------------------------------------------
(* Properties of recommend: candidates, the feed filter, the response cache *)
(* and failures.                                                            *)

EpisodeIds(eps) == {eps[i].id : i \in 1..Len(eps)}

\* the sources of the call in flight that did not fail
Succeeded == {k \in 1..Len(results) : results[k].ok}

\* C1: for any outputs of the four sources, episodes repeated inside one source
\* and across sources included, the merged candidate list holds each episode
\* id at most once and holds every id returned by a source that did not fail.
C1_MergedCandidatesUniqueAndComplete ==
    results # <<>> =>
        /\ \A i, j \in 1..Len(all_episodes) :
              all_episodes[i].id = all_episodes[j].id => i = j
        /\ \A k \in Succeeded : EpisodeIds(results[k].eps) \subseteq EpisodeIds(all_episodes)

\* sources 1 and 2 both return episode 1, source 2 returns some episode twice,
\* and the merged list has one entry per id
C1_Witness ==
    /\ pc = "score_data"
    /\ results[1].ok /\ results[2].ok
    /\ EpisodeIds(results[1].eps) \cap EpisodeIds(results[2].eps) # {}
    /\ \E i, j \in 1..Len(results[2].eps) : i # j /\ results[2].eps[i].id = results[2].eps[j].id
    /\ Len(all_episodes) = Cardinality(EpisodeIds(all_episodes))
    /\ Len(all_episodes) >= 3

\* C2 as stated: no two episodes of the returned list have the same feed_id.
\* Two episodes without a feed_id are both returned.
C2_NoTwoWithSameFeedId ==
    outcome.kind = "result" =>
        \A i, j \in 1..Len(outcome.episodes) :
            i # j => outcome.episodes[i].feed_id # outcome.episodes[j].feed_id

\* C2: for any candidates and any ranking response, no two episodes of the
\* returned list have the same feed_id when that feed_id is present and not 0;
\* episodes whose feed_id is absent or 0 are not limited.
C2_AtMostOnePerKnownFeed ==
    outcome.kind = "result" =>
        \A i, j \in 1..Len(outcome.episodes) :
            (i # j /\ Truthy(outcome.episodes[i].feed_id))
                => outcome.episodes[i].feed_id # outcome.episodes[j].feed_id

\* the ids the ranking response of the call in flight lists
RankedIds ==
    IF rankings.t = "list"
    THEN {rankings.items[i].id[1] :
            i \in {n \in 1..Len(rankings.items) : rankings.items[n].id # None}}
    ELSE {}

\* two ranked candidates of one feed were gathered, one of them is returned,
\* and two episodes without a feed are returned beside it
C2_Witness ==
    /\ pc = "done" /\ outcome.via = "ranked"
    /\ \E a, b \in 1..Len(all_episodes) :
          /\ a # b
          /\ Truthy(all_episodes[a].feed_id)
          /\ all_episodes[a].feed_id = all_episodes[b].feed_id
          /\ {all_episodes[a].id, all_episodes[b].id} \subseteq RankedIds
          /\ \E i \in 1..Len(outcome.episodes) :
                outcome.episodes[i].feed_id = all_episodes[a].feed_id
    /\ \E i, j \in 1..Len(outcome.episodes) :
          i # j /\ outcome.episodes[i].feed_id = None /\ outcome.episodes[j].feed_id = None

\* the place of an episode id in the ranking response and in the merged
\* candidate list
RankPos(id) == CHOOSE i \in 1..Len(rankings.items) : rankings.items[i].id = Some(id)
CandPos(id) == CHOOSE i \in 1..Len(all_episodes) : all_episodes[i].id = id

\* the ranked candidates that share the feed of the returned episode x
FeedRivals(x) ==
    {c \in 1..Len(all_episodes) :
        /\ all_episodes[c].id # x.id
        /\ all_episodes[c].feed_id = x.feed_id
        /\ all_episodes[c].id \in RankedIds}

Within(at) == (now - at) * SecondsPerHour < MaxAgeMinutes * 60

\* C4 as stated: after a call that returned a result, a call with the same
\* stored inputs and request within the freshness window is served from the
\* cache without a language-model call. The empty result of a call without
\* candidates is not stored.
C4_HitAfterAnyResult ==
    (pc # "idle" /\ prev.kind = "result" /\ prev.inputs = inputs /\ prev.req = req
        /\ Within(prev.at))
        => (pc = "done" /\ outcome.kind = "result" /\ outcome.cached /\ llmCalls = 0)

\* C4: after a call that ranked candidates and stored its result, a later call
\* with the same stored inputs and request made less than 60 minutes after
\* the store returns a result flagged cached and makes no language-model call.
C4_HitAfterStoredResult ==
    pc # "idle" =>
        \A s \in stores :
            (s.call < calls /\ s.inputs = inputs /\ s.user_request = req /\ Within(s.at))
                => (pc = "done" /\ outcome.kind = "result" /\ outcome.cached
                    /\ llmCalls = 0)

\* a second call is served from the row an earlier call with the same inputs
\* stored
C4_Witness ==
    /\ pc = "done" /\ outcome.kind = "result" /\ outcome.cached /\ llmCalls = 0
    /\ \E s \in stores :
          s.call < calls /\ s.inputs = inputs /\ s.user_request = req /\ Within(s.at)

\* the store that wrote the row a cache hit of the call in flight read
RowStore ==
    CHOOSE s \in stores :
        /\ s.profile_hash = key /\ s.user_request = req
        /\ \A o \in stores :
              (o.profile_hash = key /\ o.user_request = req) => o.call <= s.call

\* C5 as stated: a call is never served a cached result that was stored by a
\* call whose (profile, favorites, history, request) differed from its own.
\* The key is built from the summaries, which leave out the favorite's feed id,
\* and joins them with "|", which a title may contain.
C5_HitOnlyOnSameInputs ==
    (pc = "done" /\ outcome.via = "cache") =>
        /\ InputStates[RowStore.inputs] = InputStates[inputs]
        /\ RowStore.user_request = req

\* C6: whichever of the four sources fail, the gather step does not raise:
\* the merged candidates are those of the sources that succeeded, all of them,
\* and a failed source adds none.
C6_SourceFailuresAreContained ==
    results # <<>> =>
        /\ ~(outcome.kind = "raised" /\ outcome.via = "gather")
        /\ EpisodeIds(all_episodes) = UNION {EpisodeIds(results[k].eps) : k \in Succeeded}
        /\ \A k \in 1..Len(results) : ~results[k].ok => results[k].eps = <<>>

\* sources 1 and 3 failed, source 2 returned episodes, and the call goes on
\* with them
C6_Witness ==
    /\ pc = "score_data"
    /\ ~results[1].ok /\ ~results[3].ok /\ results[2].ok
    /\ results[2].eps # <<>>
    /\ EpisodeIds(all_episodes) = EpisodeIds(results[2].eps) \cup EpisodeIds(results[4].eps)

\* C7 as stated: a call that has candidates is not ended by the trending
\* snapshot: when the snapshot is stale and the fetch fails, the manager
\* returns the empty snapshot. _get_trending_data lets the error of the fetch
\* through, and recommend does not catch it at line 188.
C7_StaleFetchFailureGivesEmptySnapshot ==
    ~(pc = "done" /\ all_episodes # <<>> /\ outcome.kind = "raised"
        /\ outcome.via = "trending_data")

\* a reply that is no JSON: it holds no JSON value, or words beside it (the
\* word on the line of an opening fence is dropped with the fence)
NotJson(text) ==
    \/ \A i \in 1..Len(text) : text[i].k # "json"
    \/ \E i \in 1..Len(text) : text[i].k = "word" /\ ~(i = 2 /\ text[1].k = "fence")

\* C8: when the reply to the query prompt or to the ranking prompt is no
\* JSON, the call ends raising: it returns no episode list and the response
\* cache is as the call found it.
C8_UnparseableReplyFailsTheCall ==
    (\/ queryReply # 0 /\ NotJson(QueryReplies[queryReply].text)
     \/ rankReply # 0 /\ NotJson(RankReplies[rankReply].text))
        => /\ pc = "done"
           /\ outcome.kind = "raised"
           /\ outcome.episodes = <<>>
           /\ recCache = cache0

\* the ranking reply of a call that has candidates is no JSON, while the
\* cache holds a row of an earlier call
C8_Witness ==
    /\ pc = "done" /\ outcome.kind = "raised" /\ outcome.via = "rank"
    /\ rankReply # 0 /\ NotJson(RankReplies[rankReply].text)
    /\ all_episodes # <<>>
    /\ cache0 # {} /\ recCache = cache0

\* C9 as stated: a reply to the query prompt that is JSON but no array of
\* strings ends the call raising, before any source is asked. A JSON string
\* and an array of numbers can be sliced and iterated, and the call goes on.
C9_WrongShapeFailsTheCall ==
    (queryReply # 0 /\ QueryReplies[queryReply].text[1].k = "json"
        /\ QueryReplies[queryReply].text[1].v.t \in {"str", "numlist", "obj", "num"})
        => (pc = "done" /\ outcome.kind = "raised")

\* every source of the call in flight failed or returned nothing
AllSourcesEmpty ==
    results # <<>> /\ \A k \in 1..Len(results) : ~results[k].ok \/ results[k].eps = <<>>

\* C10: when all four sources yield no candidate, by returning nothing or by
\* failing, the call returns a result with no episodes, the generated queries
\* and cached = false; it does not raise, and the query prompt is the only
\* language-model call it made.
C10_NoCandidatesGivesEmptyResult ==
    AllSourcesEmpty =>
        /\ pc = "done"
        /\ outcome.kind = "result"
        /\ outcome.episodes = <<>>
        /\ outcome.queries_used = queries
        /\ outcome.cached = FALSE
        /\ llmCalls = 1
        /\ rankReply = 0

\* some sources failed, the others returned nothing, and the call returned
\* the queries it generated
C10_Witness ==
    /\ AllSourcesEmpty
    /\ \E k \in 1..Len(results) : ~results[k].ok
    /\ \E k \in 1..Len(results) : results[k].ok
    /\ pc = "done" /\ outcome.kind = "result" /\ outcome.via = "empty"
    /\ outcome.queries_used.items # <<>>
    /\ llmCalls = 1

\* C13: the language-model calls of one call are sequential and at most two:
\* the sources are asked only after the query prompt was answered, the
\* ranking prompt is sent only after the sources were gathered, and a call
\* served from the cache sends no prompt.
C13_LanguageModelCallsInSequence ==
    /\ llmCalls <= 2
    /\ llmCalls = (IF queryReply # 0 THEN 1 ELSE 0) + (IF rankReply # 0 THEN 1 ELSE 0)
    /\ results # <<>> => (queryReply # 0 /\ llmCalls >= 1)
    /\ pc \in {"gather", "score_data"} => (llmCalls = 1 /\ rankReply = 0)
    /\ rankReply # 0 => (queryReply # 0 /\ results # <<>> /\ all_episodes # <<>>)
    /\ outcome.via = "cache" => llmCalls = 0

\* a call that sent both prompts, the second after its sources were gathered
C13_Witness ==
    /\ pc = "done" /\ outcome.via = "ranked"
    /\ queryReply # 0 /\ rankReply # 0 /\ llmCalls = 2
    /\ results # <<>>

\* C14 as stated: the refresh of the trending snapshot is attempted at most
\* once in a call. Source 3 and line 188 both call _get_trending_data, and the
\* second call fetches again when the first fetch failed.
C14_RefreshAttemptedAtMostOnce == fetches <= 1

\* C14: recommend has no retry loop, but it calls the trending manager twice,
\* once inside source 3 and once before scoring: the refresh is attempted at
\* most twice in a call, and a second time only when the attempt of source 3
\* failed and left the snapshot stale.
C14_RefreshAttemptedTwiceOnlyAfterFailure ==
    /\ fetches <= 2
    /\ fetches = 2 => (results # <<>> /\ ~results[3].ok
                        /\ pc \in {"rank", "done"} /\ all_episodes # <<>>)
    /\ (results # <<>> /\ results[3].ok /\ fetches >= 1) => fetches = 1

\* the refresh failed inside source 3 and was attempted again, with success,
\* before scoring
C14_Witness ==
    /\ pc = "rank" /\ fetches = 2
    /\ ~results[3].ok
    /\ trendCache # <<>>

RowsFound == {row \in cache0 : row.profile_hash = key /\ row.user_request = req}

\* C17 as stated: once the window of an entry has passed, an identical call
\* that returns a result is not served from the cache and overwrites the
\* entry with a fresh timestamp. The call overwrites nothing when its sources
\* give it no candidate.
C17_ExpiredEntryIsOverwritten ==
    (pc = "done" /\ outcome.kind = "result"
        /\ \E row \in RowsFound : ~Within(row.created_at))
        => /\ ~outcome.cached
           /\ \A row \in recCache :
                 (row.profile_hash = key /\ row.user_request = req) => row.created_at = now

\* C17: the lookup returns an entry exactly while it is less than 60 minutes
\* old; an identical call made once the window has passed is a miss that sends
\* the query prompt, and when it ranks candidates and returns them it
\* overwrites the entry with its result and a fresh timestamp; when it finds
\* no candidate or fails, the old entry stays as it was.
C17_EntryServedExactlyWhileFresh ==
    /\ (pc = "done" /\ outcome.via = "cache") <=>
          (pc # "idle" /\ \E row \in RowsFound : Within(row.created_at))
    /\ (pc = "done" /\ \E row \in RowsFound : ~Within(row.created_at)) =>
          /\ llmCalls >= 1
          /\ IF outcome.via = "ranked"
             THEN \E row \in recCache :
                     /\ row.profile_hash = key /\ row.user_request = req
                     /\ row.created_at = now
                     /\ \A other \in recCache :
                           (other.profile_hash = key /\ other.user_request = req)
                              => other = row
             ELSE recCache = cache0

\* a call found its entry 60 minutes old, ranked candidates and overwrote it
C17_Witness ==
    /\ pc = "done" /\ outcome.via = "ranked"
    /\ \E row \in RowsFound : (now - row.created_at) * SecondsPerHour = MaxAgeMinutes * 60
    /\ \E row \in recCache :
          row.profile_hash = key /\ row.user_request = req /\ row.created_at = now

\* C19: the result of a cache hit has the episode list (episodes, order and
\* scores), the queries_used and the usage of the result the storing call
\* returned, and cached = true where that one has cached = false; every
\* stored payload carries cached = false.
C19_HitReturnsStoredResult ==
    /\ (pc = "done" /\ outcome.via = "cache") =>
          /\ outcome.episodes = RowStore.returned.episodes
          /\ outcome.queries_used = RowStore.returned.queries_used
          /\ outcome.usage = RowStore.returned.usage
          /\ outcome.cached = TRUE
          /\ RowStore.returned.cached = FALSE
    /\ \A row \in recCache : row.response_json.text[4] = <<"cached", "false">>

\* a hit returns a list of two episodes, sorted, that an earlier call stored
C19_Witness ==
    /\ pc = "done" /\ outcome.via = "cache" /\ outcome.cached
    /\ Len(outcome.episodes) >= 1
    /\ outcome.usage.input_tokens > 0
    /\ RowStore.call < calls
    /\ outcome.episodes = RowStore.returned.episodes

\* C15: the trending manager asks the directory exactly when the slot is
\* stale, that is empty or older than the TTL of 4 hours; when the slot is
\* fresh it asks nothing and leaves the slot, payload and timestamp, as it was.
C15_DirectoryAskedExactlyWhenStale ==
    manager.called =>
        /\ manager.fetched <=>
              (\/ manager.before = <<>>
               \/ (manager.at - manager.before[1].cached_at) * SecondsPerHour
                     > 4 * SecondsPerHour)
        /\ ~manager.fetched => (manager.ok /\ trendCache = manager.before)

\* the manager found a snapshot five hours old and replaced it
C15_Witness ==
    /\ manager.called /\ manager.fetched /\ manager.ok
    /\ manager.before # <<>>
    /\ manager.at - manager.before[1].cached_at = 5
    /\ trendCache # manager.before
    /\ trendCache[1].cached_at = manager.at

\* C16 as stated: the snapshot the manager returns while the slot is fresh is
\* the snapshot the storing refresh returned, with the same keys, so that a
\* lookup of a feed's trending score gives the same on both. The slot holds
\* JSON, whose object keys are strings.
C16_CachedSnapshotEqualsRefreshed ==
    (manager.called /\ ~manager.fetched) =>
        /\ manager.data.podcasts = manager.refreshed.podcasts
        /\ manager.data.episodes = manager.refreshed.episodes
        /\ \A feed_id \in 1..2 :
              CalculateTrendingScore(feed_id, manager.data.podcasts)
                 = CalculateTrendingScore(feed_id, manager.refreshed.podcasts)

\* C11: the candidates are merged, and the ranking call is issued, only after
\* all four sources have settled, each with every fetch it launched per feed
\* or per mentioned name.
C11_MergedOnlyAfterAllSettled ==
    (results # <<>> \/ pc \in {"score_data", "rank"} \/ rankReply # 0) =>
        \A k \in 1..4 :
            /\ tasks[k].st \in {"ok", "failed"}
            /\ \A i \in 1..Len(tasks[k].subs) : tasks[k].subs[i].st \in {"ok", "failed"}

\* the ranking call was made after sources 3 and 4 had launched fetches of
\* their own, one of which failed, and source 1 had failed
C11_Witness ==
    /\ rankReply # 0
    /\ tasks[1].st = "failed"
    /\ Len(tasks[3].subs) = 2 /\ tasks[3].subs[1].st = "failed"
    /\ Len(tasks[4].subs) = 1 /\ tasks[4].subs[1].st = "ok"

\* C12: the merged candidates are the first occurrences, by id, in the
\* concatenation of the lists of the sources that returned, taken in source
\* order 1, 2, 3, 4, whatever the order the sources settled in.
C12_MergedInSourceOrder ==
    results # <<>> =>
        LET cat == Flatten([k \in 1..4 |-> IF tasks[k].st = "ok" THEN tasks[k].eps
                                           ELSE <<>>])
            firsts == {i \in 1..Len(cat) : \A j \in 1..(i - 1) : cat[j].id # cat[i].id}
            Nth(n) == CHOOSE i \in firsts : Cardinality({j \in firsts : j < i}) = n - 1
        IN  /\ Len(all_episodes) = Cardinality(firsts)
            /\ \A n \in 1..Len(all_episodes) : all_episodes[n] = cat[Nth(n)]

\* the sources settled in the order 4, 3, 2, 1; source 2 brought its own
\* instance of episode 1 first, and the merged list opens with source 1's
C12_Witness ==
    /\ results # <<>>
    /\ order = <<4, 3, 2, 1>>
    /\ \A k \in 1..4 : tasks[k].st = "ok" /\ tasks[k].eps # <<>>
    /\ tasks[2].eps[2] = E1b
    /\ all_episodes[1] = E1
    /\ \A n \in 1..Len(all_episodes) : all_episodes[n] # E1b

\* C18: whatever the calls and however a second identical call that also
\* missed interleaves with them, the cache holds at most one entry for each
\* (fingerprint, request), every pair stored has its entry, and the entry is
\* the whole result of the call that stored last, stamped with the time of
\* that store.
C18_OneEntryFromTheLastStore ==
    /\ \A a, b \in recCache :
          (a.profile_hash = b.profile_hash /\ a.user_request = b.user_request) => a = b
    /\ \A s \in stores : \E row \in recCache :
          row.profile_hash = s.profile_hash /\ row.user_request = s.user_request
    /\ \A i \in 1..Len(peer.log) : \E row \in recCache :
          /\ row.profile_hash = peer.log[i].profile_hash
          /\ row.user_request = peer.log[i].user_request
    /\ \A row \in recCache :
          LET Same(e) == /\ e.profile_hash = row.profile_hash
                         /\ e.user_request = row.user_request
              beside == {i \in 1..Len(peer.log) : Same(peer.log[i])}
              lastBeside == CHOOSE i \in beside : \A j \in beside : j <= i
              followed == {s \in stores :
                              Same(s) /\ (beside = {} \/ s \notin peer.log[lastBeside].seen)}
              last == IF followed # {}
                      THEN CHOOSE s \in followed : \A o \in followed : o.call <= s.call
                      ELSE peer.log[lastBeside]
          IN  /\ followed # {} \/ beside # {}
              /\ row.response_json = JsonDumpsResult(last.returned)
              /\ row.created_at = last.at

\* two identical calls missed together; the second stored first and the call
\* followed stored after it: one entry, holding the later result
C18_Witness ==
    /\ pc = "done" /\ outcome.via = "ranked"
    /\ peer.st = "stored"
    /\ peer.profile_hash = key /\ peer.user_request = req
    /\ \E s \in stores :
          /\ s.call = calls /\ s.profile_hash = key
          /\ s \notin peer.log[Len(peer.log)].seen
          /\ s.returned # PeerResult
          /\ \E row \in recCache :
                /\ row.profile_hash = key /\ row.user_request = req
                /\ row.response_json = JsonDumpsResult(s.returned)
    /\ Cardinality({row \in recCache : row.profile_hash = key /\ row.user_request = req}) = 1

-----------------------------------------------------------------------------
(* Properties of the scores, the weights and the mention store. *)

\* C21: the episode list of every result that was not served from the cache
\* is in non-increasing order of composite score.
C21_ResultSortedByComposite ==
    (outcome.kind = "result" /\ ~outcome.cached) =>
        \A i, j \in 1..Len(outcome.episodes) :
            i < j => outcome.episodes[i].composite_score
                        >= outcome.episodes[j].composite_score

\* a result of three episodes with three composite scores, the first of which
\* was the last of the three among the candidates
C21_Witness ==
    /\ pc = "done" /\ outcome.via = "ranked"
    /\ Len(outcome.episodes) >= 3
    /\ outcome.episodes[1].composite_score > outcome.episodes[2].composite_score
    /\ outcome.episodes[2].composite_score > outcome.episodes[3].composite_score
    /\ CandPos(outcome.episodes[1].id) > CandPos(outcome.episodes[2].id)
    /\ CandPos(outcome.episodes[1].id) > CandPos(outcome.episodes[3].id)

\* C27 as stated: every episode of a result carries a match_score between 1
\* and 10 and a match_reason that is not empty. The score and the reason are
\* those of the ranking response, which recommend copies as they are.
C27_MatchScoreInRangeReasonGiven ==
    outcome.kind = "result" =>
        \A i \in 1..Len(outcome.episodes) :
            /\ outcome.episodes[i].match_score \in 1..10
            /\ outcome.episodes[i].match_reason # ""

\* the scoring function under watch has been applied
Applied(fn) == scoring.fn = fn /\ scoring.out # <<>>

\* C22 as stated: whatever the rank, the mention count, the duration and the
\* model's score, each component score and the composite score lies in
\* [0.0, 1.0]. The social score has no clamp, and its lower branch is
\* negative for a count below -2.
C22_EveryScoreInUnitInterval ==
    scoring.out # <<>> =>
        \A i \in 1..Len(scoring.out) :
            /\ scoring.out[i] >= 0
            /\ scoring.out[i] <= (IF scoring.fn = "composite" THEN 1000 * 1000 ELSE 1000)

\* the weighted sum of C23, in millionths, of the sample under watch
WeightedSum ==
    scoring.comps[1] * 150 + scoring.comps[2] * 100 + scoring.comps[3] * 100
    + scoring.comps[4] * 100 + scoring.comps[5] * 50 + (scoring.x1[1] * 100) * 500

StatedSocial(c) ==
    IF c = 0 THEN 0
    ELSE IF c <= 4 THEN 300 + (c - 1) * 100
    ELSE IF c <= 9 THEN 700 + (c - 5) * 50
    ELSE 1000

\* C25: the social score is 0 when the exact name is not in the mention
\* counts or its count is 0, rises linearly from 0.3 to 0.6 over counts 1 to
\* 4 and from 0.7 to 0.9 over counts 5 to 9, is 1.0 from 10 on, and never
\* falls as the count rises from 0.
C25_SocialScoreIsTheStatedScale ==
    Applied("social") =>
        LET c1 == scoring.x1[1]
            c2 == scoring.x2[1]
        IN  /\ ~scoring.listed => scoring.out = <<0, 0>>
            /\ (scoring.listed /\ c1 >= 0) => scoring.out[1] = StatedSocial(c1)
            /\ (scoring.listed /\ c2 >= 0) => scoring.out[2] = StatedSocial(c2)
            /\ (scoring.listed /\ 0 <= c1 /\ c1 <= c2) => scoring.out[1] <= scoring.out[2]

\* counts 2 and 7 under the name asked for score 0.4 and 0.8
C25_Witness ==
    /\ Applied("social")
    /\ scoring.listed
    /\ scoring.x1 = Some(2) /\ scoring.x2 = Some(7)
    /\ scoring.out = <<400, 800>>

\* both ranks of the trending sample are integers, the first not negative and
\* below the second
RanksRise ==
    /\ scoring.listed
    /\ scoring.x1 # None /\ scoring.x2 # None
    /\ 0 <= scoring.x1[1] /\ scoring.x1[1] < scoring.x2[1]

\* the score of a feed that is absent or whose entry has no rank is 0.0, and
\* the score at rank 1 is at least 0.95
TrendingEnds ==
    /\ ~scoring.listed => scoring.out = <<0, 0>>
    /\ scoring.x1 = None => scoring.out[1] = 0
    /\ (scoring.listed /\ scoring.x1 = Some(1)) => scoring.out[1] >= 950

\* C26 as stated: the trending score is strictly decreasing over all ranks
\* r1 < r2 with r1 >= 0, is at least 0.95 at rank 1, and is 0.0 for a feed
\* that is absent or has no rank. exp underflows to 0.0 at large ranks.
C26_TrendingStrictlyDecreasing ==
    Applied("trending") =>
        /\ RanksRise => scoring.out[1] > scoring.out[2]
        /\ TrendingEnds

\* C26: the trending score never rises with the rank, falls strictly over
\* the ranks a snapshot holds, and is 0.0 at every rank from the underflow of
\* exp on; it is at least 0.95 at rank 1 and 0.0 for a feed that is absent or
\* has no rank.
C26_TrendingDecreasingUntilUnderflow ==
    Applied("trending") =>
        /\ RanksRise =>
              /\ scoring.out[1] >= scoring.out[2]
              /\ scoring.x2[1] <= TopRank => scoring.out[1] > scoring.out[2]
              /\ scoring.x1[1] >= ExpUnderflow => scoring.out = <<0, 0>>
        /\ TrendingEnds

\* two ranks past the underflow, one below the other, both with score 0.0
C26_Witness ==
    /\ Applied("trending")
    /\ RanksRise
    /\ scoring.x1 = Some(ExpUnderflow) /\ scoring.x2 = Some(ExpUnderflow + 1)
    /\ scoring.out = <<0, 0>>

\* C24: loading the configuration raises exactly when the six weights sum to
\* a value that is 0.001 or more away from 1.0, and scoring at request time
\* raises for no weights that were loaded, whether or not they sum to 1.0.
C24_ValidationRaisesExactlyBeyondTolerance ==
    LET total == config.weights[1] + config.weights[2] + config.weights[3]
                 + config.weights[4] + config.weights[5] + config.weights[6]
    IN  /\ config.st # "unloaded" =>
              (config.st = "failed" <=> (total - 10000 >= 10 \/ 10000 - total >= 10))
        /\ config.scored # <<>> => (config.st = "loaded" /\ ~config.scored[1].raised)

\* weights that sum to 1.001 were rejected at load
C24_Witness ==
    /\ config.st = "failed"
    /\ config.weights[1] = AI_MATCH * 10 + 10
    /\ SumSeq(config.weights) = 10010

\* the increments of the logged updates whose name lowercases to `name`
RECURSIVE IncrementsFor(_, _)
IncrementsFor(log, name) ==
    IF log = <<>> THEN 0
    ELSE (IF Lower(Head(log).name) = name THEN Head(log).increment ELSE 0)
         + IncrementsFor(Tail(log), name)

\* C28: after any sequence of mention updates the store holds one entry for
\* each lowercased name updated and no other, and the entry's count is the sum
\* of the increments of the updates whose name lowercases to it, those made
\* before the entry left the 24-hour window included.
C28_OneEntryPerNameCountIsSum ==
    /\ \A i, j \in 1..Len(mentions) :
          mentions[i].podcast_name = mentions[j].podcast_name => i = j
    /\ {mentions[i].podcast_name : i \in 1..Len(mentions)}
          = {Lower(reddit.log[k].name) : k \in 1..Len(reddit.log)}
    /\ \A i \in 1..Len(mentions) :
          mentions[i].mention_count = IncrementsFor(reddit.log, mentions[i].podcast_name)

\* "Serial" was updated, 26 hours passed, "serial" was updated: one entry
\* "serial" holds both increments
C28_Witness ==
    /\ Len(reddit.log) >= 2
    /\ reddit.log[1].name = "Serial" /\ reddit.log[2].name = "serial"
    /\ reddit.log[2].at - reddit.log[1].at = 26
    /\ \E i \in 1..Len(mentions) :
          /\ mentions[i].podcast_name = "serial"
          /\ mentions[i].mention_count = 3
    /\ Len(mentions) = 1

\* C29 as stated: a read with a 24-hour window returns exactly the entries
\* last updated less than 24 hours before. The stored timestamp and the bound
\* are compared as texts of two formats, which settles on the date alone.
C29_ReadReturnsEntriesOfLastDay ==
    reddit.read # None =>
        \A i \in 1..Len(mentions) :
            HasKey(reddit.read[1], mentions[i].podcast_name)
                <=> now - mentions[i].updated_at < 24

\* C30 as stated: no name is searched while an entry the read returned, with
\* a strictly higher count, is left out. The names are the first three in
\* table order.
C30_SearchedNamesHaveTopCounts ==
    reddit.read # None =>
        \A i \in 1..Len(reddit.names) :
            \A j \in 1..Len(reddit.read[1]) :
                (\A k \in 1..Len(reddit.names) : reddit.names[k] # reddit.read[1][j].k)
                    => reddit.read[1][j].v <= DictGet(reddit.read[1], reddit.names[i])

-----------------------------------------------------------------------------
(* Properties of the usage returned, the feed filter, the trending slot,    *)
(* the stores, the end of a call and the background loop.                   *)

\* C31: a call that reached ranking returns, as token usage, the sum of the
\* input tokens and the sum of the output tokens of the query-generation call
\* and of the ranking call; a call that ended on an empty candidate list
\* returns the usage of the query-generation call alone.
C31_UsageIsSumOfBothCalls ==
    /\ (pc = "done" /\ outcome.via = "ranked") =>
          /\ outcome.usage.input_tokens
                = QueryReplies[queryReply].usage.input_tokens
                  + RankReplies[rankReply].usage.input_tokens
          /\ outcome.usage.output_tokens
                = QueryReplies[queryReply].usage.output_tokens
                  + RankReplies[rankReply].usage.output_tokens
    /\ (pc = "done" /\ outcome.via = "empty") =>
          /\ rankReply = 0
          /\ outcome.usage = QueryReplies[queryReply].usage

\* a call returned 100 + 200 input tokens and 30 + 40 output tokens
C31_Witness ==
    /\ pc = "done" /\ outcome.via = "ranked"
    /\ queryReply = 2 /\ rankReply = 2
    /\ outcome.usage = Usage(300, 70)

\* a candidate without a feed identity: feed_id missing or 0
Feedless(ep) == ep.feed_id = None \/ ep.feed_id = Some(0)

\* the candidates under watch that the ranking response lists
Listed(c) ==
    \E k \in 1..Len(diversity.rankings.items) :
        diversity.rankings.items[k].id = Some(diversity.eps[c].id)

\* the ids of the episodes the loop retained
Retained == {diversity.out[1][i].id : i \in 1..Len(diversity.out[1])}

\* the composite score the loop gives candidate c when it scores it
CompositeAlone(c) ==
    CompositeOf(diversity.eps[c],
                DictGet(RankingDict(diversity.rankings).d, diversity.eps[c].id),
                <<>>, <<>>, now)

\* C32: of the candidates of one feed that the model ranked, the loop retains
\* the first in candidate order and drops the others, whatever their composite
\* scores; a candidate the model did not rank stands in nobody's way, so the
\* first ranked candidate of a feed is retained even behind unranked ones.
C32_FirstRankedOfFeedRetained ==
    diversity.out # None =>
        \A c \in 1..Len(diversity.eps) :
            (~Feedless(diversity.eps[c]) /\ Listed(c)) =>
                (diversity.eps[c].id \in Retained
                    <=> ~\E b \in 1..(c - 1) :
                            /\ diversity.eps[b].feed_id = diversity.eps[c].feed_id
                            /\ Listed(b))

\* three candidates of feed 1: the first is not ranked, the second is ranked
\* and retained, the third is ranked with a higher composite score and dropped
C32_Witness ==
    /\ diversity.out # None
    /\ Len(diversity.eps) >= 3
    /\ \A c \in 1..3 : diversity.eps[c].feed_id = Some(1)
    /\ ~Listed(1) /\ Listed(2) /\ Listed(3)
    /\ 2 \in Retained /\ 3 \notin Retained
    /\ CompositeAlone(3) > CompositeAlone(2)
    /\ \E i \in 1..Len(diversity.out[1]) :
          diversity.out[1][i].id = 2 /\ diversity.out[1][i].composite_score = CompositeAlone(2)

\* the candidates that carry a feed identity
WithFeed == SelectSeq(diversity.eps, LAMBDA ep : ~Feedless(ep))

\* C39: a ranked candidate whose feed_id is missing or 0 is always retained,
\* and the candidates with a feed identity fare as they would if the
\* candidates without one were not in the list.
C39_FeedlessNeverDroppedNorDropping ==
    diversity.out # None =>
        /\ \A c \in 1..Len(diversity.eps) :
              (Feedless(diversity.eps[c]) /\ Listed(c))
                  => diversity.eps[c].id \in Retained
        /\ LET alone == ScoreLoop(WithFeed, RankingDict(diversity.rankings).d,
                                  <<>>, <<>>, now).ranked
           IN  {alone[i].id : i \in 1..Len(alone)}
                  = {diversity.eps[c].id :
                        c \in {n \in 1..Len(diversity.eps) :
                                   /\ ~Feedless(diversity.eps[n])
                                   /\ diversity.eps[n].id \in Retained}}

\* two ranked candidates with feed_id 0 are retained together, and a
\* candidate of feed 1 that follows them is retained too
C39_Witness ==
    /\ diversity.out # None
    /\ Len(diversity.eps) = 3
    /\ diversity.eps[1].feed_id = Some(0)
    /\ diversity.eps[2].feed_id = Some(0)
    /\ diversity.eps[3].feed_id = Some(1)
    /\ Retained = {1, 2, 3}

\* C36 as stated: a returned episode whose feed title equals, up to letter
\* case, a name with non-aged mentions is scored with the social score of that
\* name's count. The store keeps names in lower case and the title is looked
\* up as it is, so the title "Serial" does not find the count of "serial".
C36_TitleMatchedUpToCase ==
    (pc = "done" /\ outcome.via = "ranked") =>
        \A i \in 1..Len(outcome.episodes) :
            LET x == outcome.episodes[i]
                ep == all_episodes[CandPos(x.id)]
                name == Lower(x.feed_title)
            IN  HasKey(scoreData.reddit_mentions, name) =>
                    x.composite_score
                        = CalculateCompositeScore(
                              CalculateTrendingScore(
                                  IF Truthy(ep.feed_id) THEN ep.feed_id[1] ELSE 0,
                                  scoreData.trending_data),
                              SocialScale(DictGet(scoreData.reddit_mentions, name)),
                              CalculatePopularityScore(ep),
                              CalculateRecencyScore(ep, now),
                              CalculateDurationMatch(ep, 30),
                              x.match_score * 100)

\* the call in flight follows a call that had the same stored inputs and the
\* same request
SameAsPrevious == calls >= 2 /\ pc # "idle" /\ prev.inputs = inputs /\ prev.req = req

\* C38: a call that ends on an empty candidate list, and a call that fails,
\* leave the response cache as they found it; the call that follows an empty
\* result with the same inputs is not served from the cache and calls the
\* language model; a ranked result without episodes is stored under the
\* call's key as any other result is.
C38_OnlyRankedResultsAreStored ==
    /\ (pc = "done" /\ (outcome.via = "empty" \/ outcome.kind = "raised"))
          => recCache = cache0
    /\ (SameAsPrevious /\ prev.via = "empty" /\ pc = "done")
          => (outcome.via # "cache" /\ ~outcome.cached /\ llmCalls >= 1)
    /\ (pc = "done" /\ outcome.via = "ranked" /\ outcome.episodes = <<>>)
          => [profile_hash |-> key, user_request |-> req,
              response_json |-> JsonDumpsResult(Result(<<>>, queries, usage, FALSE)),
              created_at |-> now] \in recCache

\* a call ended on an empty candidate list; the same call made again asked
\* the language model, got a ranking of nothing, and stored its empty result
C38_Witness ==
    /\ SameAsPrevious /\ prev.via = "empty" /\ prev.at = now
    /\ pc = "done" /\ outcome.via = "ranked" /\ outcome.episodes = <<>>
    /\ llmCalls = 2
    /\ cache0 = {}
    /\ \E row \in recCache : row.profile_hash = key /\ row.user_request = req

\* the snapshot the slot holds, as get_trending_cache reads it
Slot == JsonLoadsTrending(trendCache[1].data)

\* C33 as stated: whoever stored the slot, its episodes mapping gives each
\* episode of the fetched list a record {rank} with the episode's 0-based
\* position. The background refresh stores the number position + 1 instead.
C33_EpisodesMapToZeroBasedRank ==
    (trendCache # <<>> /\ refresh.writer # <<>> /\ refresh.writer[1].episodes_list # None) =>
        LET fetched == refresh.writer[1].episodes_list[1]
        IN  /\ Len(Slot.episodes) = Len(fetched)
            /\ \A i \in 1..Len(fetched) :
                  \E j \in 1..Len(Slot.episodes) :
                      /\ Slot.episodes[j].k.v = fetched[i].id
                      /\ DOMAIN Slot.episodes[j].v = {"rank"}
                      /\ Slot.episodes[j].v.rank = Some(i - 1)

\* the keys of a mapping as the slot holds it
KeysOf(d) == {d[i].k.v : i \in 1..Len(d)}

\* C34: whatever the order in which refreshes that began on a stale slot
\* fetch and store, the slot holds the podcasts and the episodes one refresh
\* fetched, with that refresh's time, and nothing else; that refresh is the
\* one that stored last.
C34_SlotIsOneWholeSnapshotOfLastWriter ==
    trendCache # <<>> =>
        /\ refresh.writer # <<>>
        /\ LET w == refresh.writer[1]
           IN  /\ KeysOf(Slot.podcasts) = KeysOf(PodcastsAt(w.n))
               /\ Len(Slot.podcasts) = Len(PodcastsAt(w.n))
               /\ KeysOf(Slot.episodes)
                     = IF w.episodes_list = None THEN {}
                       ELSE {EpisodesAt(w.n)[i].id : i \in 1..Len(EpisodesAt(w.n))}
               /\ Len(Slot.episodes) = Cardinality(KeysOf(Slot.episodes))
               /\ trendCache[1].cached_at = w.at

\* two recommend calls and the background refresh all began on the empty
\* slot and all stored; the call that began first stored last, and the slot
\* holds its snapshot
C34_Witness ==
    /\ Len(refresh.runs) = 2
    /\ refresh.runs[1].st = "done" /\ refresh.runs[2].st = "done"
    /\ refresh.runs[1].n = 1 /\ refresh.runs[2].n = 3
    /\ refresh.loop = "sleep_after_trending"
    /\ refresh.writer # <<>> /\ refresh.writer[1].by = "demand" /\ refresh.writer[1].n = 1
    /\ trendCache # <<>>
    /\ 1 \in KeysOf(Slot.podcasts) /\ 10 \in KeysOf(Slot.episodes)

\* a refresh one of whose fetches failed
RefreshFailed(r) == r.podcasts = None \/ r.episodes_list = None

Alternates ==
    \A i \in 1..Len(refresh.attempts) :
        refresh.attempts[i] = IF i % 2 = 1 THEN "trending" ELSE "reddit"

C37_CallEndsUnlessModelHangs ==
    /\ ModelFairness => ((pc # "idle") ~> (pc = "done" /\ outcome.kind \in {"result", "raised"}))
    /\ []<>(pc \notin {"gather", "score_data"})

\* a call ended with a ranked result although fetches of its sources failed
C37_Witness ==
    /\ pc = "done" /\ outcome.via = "ranked"
    /\ \E k \in 1..Len(results) : ~results[k].ok
    /\ \E k \in 1..4 : \E f \in 1..Len(tasks[k].subs) : tasks[k].subs[f].st = "failed"

====
